---- MODULE Spec2Model ----
(***************************************************************************)
(* A model of xorkevin/kfs: the in-memory backend (kfstest.MapFS, its Sub  *)
(* views and its open-file handles), the symlink containment check shared  *)
(* by the OS backend and the in-memory backend, and the masking decorator. *)
(*                                                                         *)
(* Strings (paths, link targets, file contents) are sequences of           *)
(* one-character strings, so that path.Clean, path.Join, fs.ValidPath and  *)
(* strings.HasPrefix are computed character by character as Go does.       *)
(***************************************************************************)
EXTENDS Integers, Sequences, FiniteSets, TLC

\* ------------------------------------------------------------------------
\* Strings and the Go path helpers the repository calls
\* ------------------------------------------------------------------------

Nil == "nil"

Slash == "/"

Dot == "."

\* the string ".."
DotDot == <<Dot, Dot>>

\* the string "."
DotStr == <<Dot>>

\* byte order of the characters the model uses ('.' < '/' < letters)
CharOrder ==
    <<".", "/", "a", "b", "c", "d", "e", "g", "i", "k", "l", "n", "o", "s", "t",
      "u", "x">>

Ord(c) == CHOOSE i \in 1..Len(CharOrder) : CharOrder[i] = c

\* s < t in Go's string order
RECURSIVE StrLess(_, _)
StrLess(s, t) ==
    IF t = <<>> THEN FALSE
    ELSE IF s = <<>> THEN TRUE
    ELSE IF Head(s) = Head(t) THEN StrLess(Tail(s), Tail(t))
    ELSE Ord(Head(s)) < Ord(Head(t))

\* strings.HasPrefix
HasPrefix(s, p) == Len(p) <= Len(s) /\ SubSeq(s, 1, Len(p)) = p

\* strings.Split(s, "/"): the elements between slashes (empty ones kept)
RECURSIVE SplitAcc(_, _, _)
SplitAcc(s, cur, acc) ==
    IF s = <<>> THEN Append(acc, cur)
    ELSE IF Head(s) = Slash THEN SplitAcc(Tail(s), <<>>, Append(acc, cur))
    ELSE SplitAcc(Tail(s), Append(cur, Head(s)), acc)

Elems(s) == SplitAcc(s, <<>>, <<>>)

\* elements joined by single slashes
RECURSIVE JoinElems(_)
JoinElems(es) ==
    IF es = <<>> THEN <<>>
    ELSE IF Len(es) = 1 THEN es[1]
    ELSE es[1] \o <<Slash>> \o JoinElems(Tail(es))

\* path.IsAbs
IsAbs(s) == Len(s) > 0 /\ s[1] = Slash

\* io/fs.ValidPath: "." or slash-separated elements none of which is empty,
\* "." or ".."
ValidPath(s) ==
    \/ s = DotStr
    \/ LET es == Elems(s)
       IN \A i \in 1..Len(es) : es[i] # <<>> /\ es[i] # DotStr /\ es[i] # DotDot

\* path.Clean: the element stack of the lexical clean-up (empty and "."
\* elements dropped, ".." removing the element before it, a leading ".."
\* kept when the path is not rooted and dropped when it is)
RECURSIVE CleanStack(_, _, _)
CleanStack(es, rooted, out) ==
    IF es = <<>> THEN out
    ELSE LET e == Head(es)
             next == IF e = <<>> \/ e = DotStr THEN out
                     ELSE IF e = DotDot
                          THEN IF out # <<>> /\ out[Len(out)] # DotDot
                               THEN SubSeq(out, 1, Len(out) - 1)
                               ELSE IF rooted THEN out ELSE Append(out, DotDot)
                          ELSE Append(out, e)
         IN CleanStack(Tail(es), rooted, next)

Clean(s) ==
    IF s = <<>> THEN DotStr
    ELSE LET rooted(body) ==
               IF IsAbs(s) THEN <<Slash>> \o body
               ELSE IF body = <<>> THEN DotStr ELSE body
         IN rooted(JoinElems(CleanStack(Elems(s), IsAbs(s), <<>>)))

\* path.Join of two elements: empty elements are ignored, the rest joined
\* by a slash and cleaned; all empty gives the empty string
Join(a, b) ==
    IF a = <<>> /\ b = <<>> THEN <<>>
    ELSE IF a = <<>> THEN Clean(b)
    ELSE IF b = <<>> THEN Clean(a)
    ELSE Clean(a \o <<Slash>> \o b)

Join3(a, b, c) ==
    LET parts == SelectSeq(<<a, b, c>>, LAMBDA x : x # <<>>)
    IN IF parts = <<>> THEN <<>> ELSE Clean(JoinElems(parts))

\* index of the last slash of s, 0 when there is none
LastSlash(s) ==
    IF \E i \in 1..Len(s) : s[i] = Slash
    THEN CHOOSE i \in 1..Len(s) : s[i] = Slash /\ \A j \in (i+1)..Len(s) : s[j] # Slash
    ELSE 0

\* a Dir that keeps the last element
DirWhole(s) == Clean(s)

\* path.Dir: everything up to the last slash, cleaned
Dir(s) == Clean(SubSeq(s, 1, LastSlash(s)))

\* s without its trailing slashes
RECURSIVE TrimSlashes(_)
TrimSlashes(s) ==
    IF s # <<>> /\ s[Len(s)] = Slash THEN TrimSlashes(SubSeq(s, 1, Len(s) - 1)) ELSE s

\* a Base that keeps the directories
BaseWhole(s) == IF s = <<>> THEN DotStr ELSE s

\* path.Base: the last element
Base(s) ==
    IF s = <<>> THEN DotStr
    ELSE LET t == TrimSlashes(s)
         IN IF t = <<>> THEN <<Slash>>
            ELSE SubSeq(t, LastSlash(t) + 1, Len(t))

\* ------------------------------------------------------------------------
\* Error kinds (what errors.Is reports of a returned error)
\* ------------------------------------------------------------------------

ErrInvalid == "ErrInvalid"

ErrNotExist == "ErrNotExist"

ErrExist == "ErrExist"

ErrTargetOutsideFS == "ErrTargetOutsideFS"

ErrFileMasked == "ErrFileMasked"

ErrNotImplemented == "ErrNotImplemented"

\* the masking decorator's error: kind ErrFileMasked over fs.ErrPermission
ErrMaskedPerm == "ErrFileMasked,ErrPermission"

ErrPermission == "ErrPermission"

\* the predicate's own error, wrapped by the decorator
ErrFilter == "ErrFilter"

\* os.Readlink's error on a file that is no link
ErrNotLink == "EINVAL"

ErrReadOnly == "ErrReadOnly"

\* the read-only decorator's error: kind ErrReadOnly over fs.ErrInvalid
ErrReadOnlyInvalid == "ErrReadOnly,ErrInvalid"

\* errors.Is(err, kind)
ErrIs(err, kind) ==
    \/ err = kind
    \/ err = ErrMaskedPerm /\ kind \in {ErrFileMasked, ErrPermission}
    \/ err = ErrReadOnlyInvalid /\ kind \in {ErrReadOnly, ErrInvalid}

\* fs.ReadDir's errors.New("not implemented") for a file that is no directory
ErrNotDir == "ErrNotDir"

\* ------------------------------------------------------------------------
\* File modes and open flags
\* ------------------------------------------------------------------------

ModeFile == "file"

ModeSymlink == "symlink"

ModeDir == "dir"

ORdOnly == "O_RDONLY"

OWrOnly == "O_WRONLY"

ORdWr == "O_RDWR"

\* flag & rwFlagMask equal to none of the three access modes
OBadAcc == "O_WRONLY|O_RDWR"

AccModes == {ORdOnly, OWrOnly, ORdWr, OBadAcc}

\* an open flag word: the access mode and the four option bits
Flags == [acc : AccModes, create : BOOLEAN, excl : BOOLEAN,
          trunc : BOOLEAN, append : BOOLEAN]

Flag(acc, create, excl, trunc, append) ==
    [acc |-> acc, create |-> create, excl |-> excl, trunc |-> trunc, append |-> append]

\* <<isRead, isWrite>> of a flag word
isReadWrite(flag) ==
    CASE flag.acc = ORdOnly -> <<TRUE, FALSE>>
      [] flag.acc = OWrOnly -> <<FALSE, TRUE>>
      [] flag.acc = ORdWr -> <<TRUE, TRUE>>
      [] OTHER -> <<FALSE, FALSE>>

\* ------------------------------------------------------------------------
\* The record heap and the path table of the in-memory backend
\*   F: the map MapFS.Fsys, from stored key to a record's address
\*   R: the records (*fstest.MapFile), from address to fields
\* ------------------------------------------------------------------------

MapFile(data, mode, modtime) == [Data |-> data, Mode |-> mode, ModTime |-> modtime]

\* a fresh address
NewAddr(R) == CHOOSE n \in 1..(Cardinality(DOMAIN R) + 1) :
                  n \notin DOMAIN R /\ \A k \in 1..(n - 1) : k \in DOMAIN R

\* the zero time.Time
ZeroTime == 0

\* the nil record pointer
NoAddr == 0

\* m.Fsys[name]: the record's address, nil when the key is not stored
Lookup(F, name) == IF name \in DOMAIN F THEN F[name] ELSE NoAddr

\* the map with key name set to address a
MapSet(F, name, a) == [k \in DOMAIN F \cup {name} |-> IF k = name THEN a ELSE F[k]]

\* the map without the keys in names
MapDelete(F, names) == [k \in DOMAIN F \ names |-> F[k]]

\* the path table as values: stored key -> record fields
Table(F, R) == [k \in DOMAIN F |-> R[F[k]]]

\* ------------------------------------------------------------------------
\* fstest.MapFS read operations (Go standard library, as called by MapFS)
\* ------------------------------------------------------------------------

\* children found by the name as a string prefix, without the "/"
ChildNamesLoose(F, name) ==
    LET prefix == IF name = DotStr THEN <<>> ELSE name
    IN { Elems(SubSeq(k, Len(prefix) + 1, Len(k)))[1] :
           k \in { q \in DOMAIN F : q # DotStr /\ HasPrefix(q, prefix) /\ Len(q) > Len(prefix) } }

\* names of the immediate children of directory name: the element after the
\* prefix of every stored key below it
ChildNames(F, name) ==
    LET prefix == IF name = DotStr THEN <<>> ELSE name \o <<Slash>>
    IN { Elems(SubSeq(k, Len(prefix) + 1, Len(k)))[1] :
           k \in { q \in DOMAIN F : q # DotStr /\ HasPrefix(q, prefix) /\ Len(q) > Len(prefix) } }

\* a set of strings as the sequence with the greatest name first
RECURSIVE SortNamesDown(_)
SortNamesDown(S) ==
    IF S = {} THEN <<>>
    ELSE LET m == CHOOSE s \in S : \A t \in S \ {s} : StrLess(t, s)
         IN <<m>> \o SortNamesDown(S \ {m})

\* a set of strings as the sequence sorted by name
RECURSIVE SortNames(_)
SortNames(S) ==
    IF S = {} THEN <<>>
    ELSE LET m == CHOOSE s \in S : \A t \in S \ {s} : StrLess(s, t)
         IN <<m>> \o SortNames(S \ {m})

\* the directory entry of child c of directory name: the stored record when
\* the child is a stored key, a synthesized directory otherwise
DirEntry(F, R, name, c) ==
    LET full == IF name = DotStr THEN c ELSE name \o <<Slash>> \o c
    IN IF full \in DOMAIN F
       THEN [Name |-> c, Mode |-> R[F[full]].Mode]
       ELSE [Name |-> c, Mode |-> ModeDir]

\* fstest.MapFS.Open: an ordinary file for a stored non-directory record,
\* else a directory (possibly synthesized) with its sorted entries
MapOpen(F, R, name) ==
    IF ~ValidPath(name) THEN [err |-> ErrNotExist]
    ELSE LET a == Lookup(F, name)
         IN IF a # NoAddr /\ R[a].Mode # ModeDir
            THEN [err |-> Nil, isDir |-> FALSE, Name |-> Base(name),
                  Data |-> R[a].Data, Mode |-> R[a].Mode, ModTime |-> R[a].ModTime]
            ELSE IF name # DotStr /\ a = NoAddr /\ ChildNames(F, name) = {}
            THEN [err |-> ErrNotExist]
            ELSE LET names == SortNames(ChildNames(F, name))
                 IN [err |-> Nil, isDir |-> TRUE,
                     Name |-> IF name = DotStr THEN DotStr ELSE Base(name),
                     Data |-> IF a = NoAddr THEN <<>> ELSE R[a].Data,
                     Mode |-> ModeDir,
                     ModTime |-> IF a = NoAddr THEN ZeroTime ELSE R[a].ModTime,
                     Entries |-> [i \in 1..Len(names) |-> DirEntry(F, R, name, names[i])]]

\* fs.Stat on the map: the descriptor of what Open returns
MapStat(F, R, name) ==
    LET info(f) ==
          IF f.err # Nil THEN [err |-> f.err]
          ELSE [err |-> Nil, Name |-> f.Name, Size |-> Len(f.Data), Mode |-> f.Mode,
                ModTime |-> f.ModTime, IsDir |-> f.isDir]
    IN info(MapOpen(F, R, name))

\* fs.ReadFile on the map: the whole content; reading a directory fails
MapReadFile(F, R, name) ==
    LET read(f) ==
          IF f.err # Nil THEN [err |-> f.err]
          ELSE IF f.isDir THEN [err |-> ErrInvalid]
          ELSE [err |-> Nil, Data |-> f.Data]
    IN read(MapOpen(F, R, name))

\* fs.ReadDir on the map: the entries sorted by name
MapReadDir(F, R, name) ==
    LET list(f) ==
          IF f.err # Nil THEN [err |-> f.err]
          ELSE IF ~f.isDir THEN [err |-> ErrNotDir]
          ELSE [err |-> Nil, Entries |-> f.Entries]
    IN list(MapOpen(F, R, name))

\* ------------------------------------------------------------------------
\* kfstest.MapFS: OpenFile and the open-file handle (mapFile)
\* ------------------------------------------------------------------------

\* a nil pointer and a pointer to v (a reader, a buffer, a wrapped value)
None == <<>>

Some(v) == <<v>>

\* what OpenFile returns when it fails: no handle, the map and records as
\* the call left them; ticks counts the readings of time.Now
OpenFail(err, F, R, ticks) == [err |-> err, F |-> F, R |-> R, file |-> None, ticks |-> ticks]

\* the checks on the flag word alone (access mode, create, exclusive)
openFlagErr(flag) ==
    LET isRead == isReadWrite(flag)[1]
        isWrite == isReadWrite(flag)[2]
    IN IF ~isRead /\ ~isWrite THEN ErrInvalid
       ELSE IF isRead /\ isWrite THEN ErrInvalid
       ELSE IF flag.create /\ ~isWrite THEN ErrInvalid
       ELSE IF ~flag.create /\ flag.excl THEN ErrInvalid
       ELSE Nil

\* checks that let exclusive through on a present record
openExistErrAny(a, flag) ==
    IF a = NoAddr /\ ~flag.create THEN ErrNotExist ELSE Nil

\* the checks on the looked-up record a (nil when absent)
openExistErr(a, flag) ==
    IF a = NoAddr
    THEN IF ~flag.create THEN ErrNotExist ELSE Nil
    ELSE IF flag.excl THEN ErrExist ELSE Nil

\* a buffer that always starts empty
openBufferEmpty(data, end) == <<>>

\* the write buffer of a new handle: empty, or the record's bytes when
\* appending
openBuffer(data, end) == IF end THEN data ELSE <<>>

\* MapFS.OpenFile(name, flag, mode); now is what time.Now returns
MapFS_OpenFile(F, R, name, flag, mode, now) ==
    IF ~ValidPath(name) THEN OpenFail(ErrInvalid, F, R, 0)
    ELSE IF openFlagErr(flag) # Nil THEN OpenFail(openFlagErr(flag), F, R, 0)
    ELSE IF openExistErr(Lookup(F, name), flag) # Nil
    THEN OpenFail(openExistErr(Lookup(F, name), flag), F, R, 0)
    ELSE
    LET isRead == isReadWrite(flag)[1]
        isWrite == isReadWrite(flag)[2]
        a == Lookup(F, name)
        \* the stored record, or a new one that is not in the map yet
        f == IF a = NoAddr THEN NewAddr(R) ELSE a
        ticks == IF a = NoAddr THEN 1 ELSE 0
        R1 == IF a = NoAddr
              THEN [k \in DOMAIN R \cup {f} |->
                       IF k = f THEN MapFile(<<>>, mode, now) ELSE R[k]]
              ELSE R
    IN IF flag.trunc /\ ~isWrite THEN OpenFail(ErrInvalid, F, R, ticks)
       ELSE
       LET \* f.Data = nil on the record itself
           R2 == IF flag.trunc THEN [R1 EXCEPT ![f].Data = <<>>] ELSE R1
       IN IF flag.append /\ ~isWrite THEN OpenFail(ErrInvalid, F, R2, ticks)
          ELSE [err |-> Nil, F |-> F, R |-> R2, ticks |-> ticks,
                file |-> Some([name |-> Base(name),
                               f |-> f,
                               path |-> name,
                               r |-> IF isRead THEN Some([data |-> R2[f].Data, off |-> 0])
                                     ELSE None,
                               b |-> IF isWrite
                                     THEN Some(openBuffer(R2[f].Data, flag.append))
                                     ELSE None])]

\* mapFile.Stat: the handle's descriptor reads its record's fields
mapFile_Stat(R, file) ==
    [err |-> Nil, Name |-> file.name, Size |-> Len(R[file.f].Data),
     Mode |-> R[file.f].Mode, ModTime |-> R[file.f].ModTime,
     IsDir |-> R[file.f].Mode = ModeDir]

Min(a, b) == IF a < b THEN a ELSE b

\* a Read that leaves the reader where it was
mapFile_ReadRewind(file, n) ==
    IF file.r = None THEN [n |-> 0, err |-> Nil, bytes |-> <<>>, file |-> file]
    ELSE LET rd == file.r[1]
             k == Min(n, Len(rd.data) - rd.off)
         IN IF rd.off >= Len(rd.data)
            THEN [n |-> 0, err |-> "EOF", bytes |-> <<>>, file |-> file]
            ELSE [n |-> k, err |-> Nil,
                  bytes |-> SubSeq(rd.data, rd.off + 1, rd.off + k), file |-> file]

\* mapFile.Read of at most n bytes: a handle without a reader reads nothing
\* and reports no error; at the end the reader reports EOF
mapFile_Read(file, n) ==
    IF file.r = None THEN [n |-> 0, err |-> Nil, bytes |-> <<>>, file |-> file]
    ELSE LET rd == file.r[1]
             k == Min(n, Len(rd.data) - rd.off)
         IN IF rd.off >= Len(rd.data)
            THEN [n |-> 0, err |-> "EOF", bytes |-> <<>>, file |-> file]
            ELSE [n |-> k, err |-> Nil,
                  bytes |-> SubSeq(rd.data, rd.off + 1, rd.off + k),
                  file |-> [file EXCEPT !.r = Some([rd EXCEPT !.off = rd.off + k])]]

\* io.ReadAll on a handle, reading at most n bytes per call until the
\* reader reports the end; a handle without a reader yields nothing
RECURSIVE ReadAll(_, _)
ReadAll(file, n) ==
    LET rd == mapFile_Read(file, n)
    IN IF rd.err # Nil \/ rd.n = 0 THEN <<>>
       ELSE rd.bytes \o ReadAll(rd.file, n)

\* a Write that reports success and keeps nothing
mapFile_WriteLost(file, p) ==
    IF file.b = None THEN [n |-> 0, err |-> ErrInvalid, file |-> file]
    ELSE [n |-> Len(p), err |-> Nil, file |-> file]

\* mapFile.Write: bytes go to the handle's buffer only
mapFile_Write(file, p) ==
    IF file.b = None THEN [n |-> 0, err |-> ErrInvalid, file |-> file]
    ELSE [n |-> Len(p), err |-> Nil, file |-> [file EXCEPT !.b = Some(file.b[1] \o p)]]

\* a Close that keeps the bytes of the record the handle was opened on in
\* front of the buffer's
closeRecordMerge(R, file, now) ==
    MapFile(R[file.f].Data \o file.b[1], R[file.f].Mode, now)

\* the record Close stores: the buffer's bytes, the mode of the record the
\* handle was opened on, the current time
closeRecord(R, file, now) == MapFile(file.b[1], R[file.f].Mode, now)

\* a Close that stores a record for every handle, a read handle's with the
\* bytes of the record it was opened on
mapFile_CloseStamp(F, R, file, now) ==
    LET a == NewAddr(R)
        data == IF file.b # None THEN file.b[1] ELSE R[file.f].Data
    IN [err |-> Nil, ticks |-> 1,
        F |-> MapSet(F, file.path, a),
        R |-> [k \in DOMAIN R \cup {a} |->
                  IF k = a THEN MapFile(data, R[file.f].Mode, now) ELSE R[k]],
        file |-> [file EXCEPT !.b = None]]

\* a Close that stores only at a path that still has a record
mapFile_ClosePresent(F, R, file, now) ==
    IF file.b # None /\ file.path \in DOMAIN F
    THEN LET a == NewAddr(R)
         IN [err |-> Nil, ticks |-> 1,
             F |-> MapSet(F, file.path, a),
             R |-> [k \in DOMAIN R \cup {a} |->
                       IF k = a THEN closeRecord(R, file, now) ELSE R[k]],
             file |-> [file EXCEPT !.b = None]]
    ELSE [err |-> Nil, ticks |-> 0, F |-> F, R |-> R, file |-> [file EXCEPT !.b = None]]

\* a Close that keeps the buffer, so that the next Close stores it again
mapFile_CloseKeep(F, R, file, now) ==
    IF file.b # None
    THEN LET a == NewAddr(R)
         IN [err |-> Nil, ticks |-> 1,
             F |-> MapSet(F, file.path, a),
             R |-> [k \in DOMAIN R \cup {a} |->
                       IF k = a THEN closeRecord(R, file, now) ELSE R[k]],
             file |-> file]
    ELSE [err |-> Nil, ticks |-> 0, F |-> F, R |-> R, file |-> file]

\* mapFile.Close: a handle with a buffer stores a new record at its path
\* and drops the buffer; any other handle changes nothing
mapFile_Close(F, R, file, now) ==
    IF file.b # None
    THEN LET a == NewAddr(R)
         IN [err |-> Nil, ticks |-> 1,
             F |-> MapSet(F, file.path, a),
             R |-> [k \in DOMAIN R \cup {a} |->
                       IF k = a THEN closeRecord(R, file, now) ELSE R[k]],
             file |-> [file EXCEPT !.b = None]]
    ELSE [err |-> Nil, ticks |-> 0, F |-> F, R |-> R, file |-> file]

\* ------------------------------------------------------------------------
\* kfstest.MapFS: symlinks, removal, times
\* ------------------------------------------------------------------------

\* a check that lets every target that is not absolute through
targetErrAbsOnly(name, target) == IF IsAbs(target) THEN ErrTargetOutsideFS ELSE Nil

\* the containment check on a link's target, shared by both backends:
\* an absolute target, or one that leaves the tree when joined to the
\* link's directory, is outside
targetErr(name, target) ==
    IF IsAbs(target) THEN ErrTargetOutsideFS
    ELSE IF ~ValidPath(Join(Dir(name), target)) THEN ErrTargetOutsideFS
    ELSE Nil

\* MapFS.ReadLink
MapFS_ReadLink(F, R, name) ==
    IF ~ValidPath(name) THEN [err |-> ErrInvalid, target |-> <<>>]
    ELSE IF name \in DOMAIN F /\ R[F[name]].Mode = ModeSymlink
    THEN LET target == R[F[name]].Data
         IN IF targetErr(name, target) # Nil
            THEN [err |-> targetErr(name, target), target |-> <<>>]
            ELSE [err |-> Nil, target |-> target]
    ELSE [err |-> ErrInvalid, target |-> <<>>]

\* MapFS.Lstat: the map does not follow links, so Lstat is Stat
MapFS_Lstat(F, R, name) ==
    IF ~ValidPath(name) THEN [err |-> ErrInvalid] ELSE MapStat(F, R, name)

\* a Remove that takes the stored paths beneath the name with it
MapFS_RemoveTree(F, name) ==
    IF ~ValidPath(name) THEN [err |-> ErrInvalid, F |-> F]
    ELSE IF name \notin DOMAIN F THEN [err |-> ErrNotExist, F |-> F]
    ELSE [err |-> Nil,
          F |-> MapDelete(F, { k \in DOMAIN F :
                                 k = name \/ HasPrefix(k, name \o <<Slash>>) })]

\* a Remove that takes a name with keys beneath it for present
MapFS_RemoveImplicit(F, name) ==
    IF ~ValidPath(name) THEN [err |-> ErrInvalid, F |-> F]
    ELSE IF name \notin DOMAIN F
              /\ ~\E k \in DOMAIN F : HasPrefix(k, name \o <<Slash>>)
    THEN [err |-> ErrNotExist, F |-> F]
    ELSE [err |-> Nil, F |-> MapDelete(F, {name} \cap DOMAIN F)]

\* MapFS.Remove
MapFS_Remove(F, name) ==
    IF ~ValidPath(name) THEN [err |-> ErrInvalid, F |-> F]
    ELSE IF name \notin DOMAIN F THEN [err |-> ErrNotExist, F |-> F]
    ELSE [err |-> Nil, F |-> MapDelete(F, {name})]

\* a RemoveAll that deletes every key the name is a string prefix of
MapFS_RemoveAllPrefix(F, name) ==
    IF ~ValidPath(name) THEN [err |-> ErrInvalid, F |-> F]
    ELSE [err |-> Nil, F |-> MapDelete(F, { k \in DOMAIN F : HasPrefix(k, name) })]

\* MapFS.RemoveAll
MapFS_RemoveAll(F, name) ==
    IF ~ValidPath(name) THEN [err |-> ErrInvalid, F |-> F]
    ELSE [err |-> Nil,
          F |-> MapDelete(F, { k \in DOMAIN F :
                                 k = name \/ HasPrefix(k, name \o <<Slash>>) })]

\* a Chtimes that stores the zero time as well
MapFS_ChtimesAlways(F, R, name, mtime) ==
    IF ~ValidPath(name) THEN [err |-> ErrInvalid, R |-> R]
    ELSE IF Lookup(F, name) = NoAddr THEN [err |-> ErrNotExist, R |-> R]
    ELSE [err |-> Nil, R |-> [R EXCEPT ![F[name]].ModTime = mtime]]

\* MapFS.Chtimes: a non-zero mtime is stored in the record itself
MapFS_Chtimes(F, R, name, mtime) ==
    IF ~ValidPath(name) THEN [err |-> ErrInvalid, R |-> R]
    ELSE IF Lookup(F, name) = NoAddr THEN [err |-> ErrNotExist, R |-> R]
    ELSE [err |-> Nil,
          R |-> IF mtime # ZeroTime THEN [R EXCEPT ![F[name]].ModTime = mtime] ELSE R]

\* ------------------------------------------------------------------------
\* Filesystem values (views): the MapFS itself, its Sub views (subdirFS),
\* the OS backend (osFS) and the masking decorator (maskFS) around one
\* ------------------------------------------------------------------------

KMapFS == "MapFS"

KSubdirFS == "subdirFS"

KOsFS == "osFS"

KMaskFS == "maskFS"

\* &MapFS{...}
TheMapFS == [kind |-> KMapFS, dir |-> <<>>, fsys |-> None]

\* &subdirFS{m, fsys, dir}: fsys is fs.Sub(m.Fsys, dir)
SubdirFS(dir) == [kind |-> KSubdirFS, dir |-> dir, fsys |-> None]

\* &osFS{fsys, dir}: dir is kept relative to the directory of DirFS
OsFS(dir) == [kind |-> KOsFS, dir |-> dir, fsys |-> None]

\* &maskFS{fsys, dir, filter}
MaskFS(inner, dir, filter) ==
    [kind |-> KMaskFS, dir |-> dir, fsys |-> Some(inner), filter |-> filter]

\* the key a name means below directory dir of the map: fs.Sub's view
\* (the map itself for ".") checks the name and joins it to dir
subFullName(dir, name) == Join(dir, name)

\* Open, Stat, ReadFile, ReadDir of a Sub view go to fs.Sub(m.Fsys, dir),
\* which is the map itself for "."; goesToMap says the name is used as is
goesToMap(v) == v.kind = KMapFS \/ v.dir = DotStr

\* a Sub that forgets the directory of the view it is taken from
MapFS_SubFlat(v, dir) ==
    IF ~ValidPath(dir) THEN [err |-> ErrInvalid, fs |-> None]
    ELSE [err |-> Nil, fs |-> Some(SubdirFS(dir))]

\* MapFS.Sub and subdirFS.Sub: fs.Sub rejects a dir that is no valid path
MapFS_Sub(v, dir) ==
    IF ~ValidPath(dir) THEN [err |-> ErrInvalid, fs |-> None]
    ELSE IF v.kind = KMapFS THEN [err |-> Nil, fs |-> Some(SubdirFS(dir))]
    ELSE [err |-> Nil, fs |-> Some(SubdirFS(Join(v.dir, dir)))]

\* Open / Stat / ReadFile / ReadDir on the map or one of its Sub views
MapView_Open(v, F, R, name) ==
    IF goesToMap(v) THEN MapOpen(F, R, name)
    ELSE IF ~ValidPath(name) THEN [err |-> ErrInvalid]
    ELSE MapOpen(F, R, subFullName(v.dir, name))

MapView_Stat(v, F, R, name) ==
    IF goesToMap(v) THEN MapStat(F, R, name)
    ELSE IF ~ValidPath(name) THEN [err |-> ErrInvalid]
    ELSE MapStat(F, R, subFullName(v.dir, name))

MapView_ReadFile(v, F, R, name) ==
    IF goesToMap(v) THEN MapReadFile(F, R, name)
    ELSE IF ~ValidPath(name) THEN [err |-> ErrInvalid]
    ELSE MapReadFile(F, R, subFullName(v.dir, name))

MapView_ReadDir(v, F, R, name) ==
    IF goesToMap(v) THEN MapReadDir(F, R, name)
    ELSE IF ~ValidPath(name) THEN [err |-> ErrInvalid]
    ELSE MapReadDir(F, R, subFullName(v.dir, name))

\* subdirFS.OpenFile: the name is checked, joined to dir and handed to the map
subdirFS_OpenFile(dir, F, R, name, flag, mode, now) ==
    IF ~ValidPath(name) THEN OpenFail(ErrInvalid, F, R, 0)
    ELSE MapFS_OpenFile(F, R, Join(dir, name), flag, mode, now)

\* an OpenFile that empties the record before it checks the flag word
MapView_OpenFileTruncFirst(v, F, R, name, flag, mode, now) ==
    LET full == IF v.kind = KMapFS THEN name ELSE Join(v.dir, name)
        R0 == IF flag.trunc /\ ValidPath(name) /\ Lookup(F, full) # NoAddr
              THEN [R EXCEPT ![F[full]].Data = <<>>] ELSE R
    IN IF v.kind = KMapFS THEN MapFS_OpenFile(F, R0, name, flag, mode, now)
       ELSE subdirFS_OpenFile(v.dir, F, R0, name, flag, mode, now)

\* an OpenFile that stores the record it creates at once
MapView_OpenFileStore(v, F, R, name, flag, mode, now) ==
    LET store(o) ==
          IF o.err = Nil /\ o.file[1].path \notin DOMAIN o.F
          THEN [o EXCEPT !.F = MapSet(o.F, o.file[1].path, o.file[1].f)]
          ELSE o
    IN IF v.kind = KMapFS THEN store(MapFS_OpenFile(F, R, name, flag, mode, now))
       ELSE store(subdirFS_OpenFile(v.dir, F, R, name, flag, mode, now))

\* an OpenFile that leaves truncation to Close
MapView_OpenFileLate(v, F, R, name, flag, mode, now) ==
    LET keep(o) ==
          IF o.err = Nil /\ o.file[1].path \in DOMAIN F THEN [o EXCEPT !.R = R] ELSE o
    IN IF v.kind = KMapFS THEN keep(MapFS_OpenFile(F, R, name, flag, mode, now))
       ELSE keep(subdirFS_OpenFile(v.dir, F, R, name, flag, mode, now))

MapView_OpenFile(v, F, R, name, flag, mode, now) ==
    IF v.kind = KMapFS THEN MapFS_OpenFile(F, R, name, flag, mode, now)
    ELSE subdirFS_OpenFile(v.dir, F, R, name, flag, mode, now)

\* subdirFS.Lstat
subdirFS_Lstat(dir, F, R, name) ==
    IF ~ValidPath(name) THEN [err |-> ErrInvalid]
    ELSE MapFS_Lstat(F, R, Join(dir, name))

MapView_Lstat(v, F, R, name) ==
    IF v.kind = KMapFS THEN MapFS_Lstat(F, R, name) ELSE subdirFS_Lstat(v.dir, F, R, name)

\* subdirFS.ReadLink: the map checks the target against the map's own root
subdirFS_ReadLink(dir, F, R, name) ==
    IF ~ValidPath(name) THEN [err |-> ErrInvalid, target |-> <<>>]
    ELSE MapFS_ReadLink(F, R, Join(dir, name))

MapView_ReadLink(v, F, R, name) ==
    IF v.kind = KMapFS THEN MapFS_ReadLink(F, R, name)
    ELSE subdirFS_ReadLink(v.dir, F, R, name)

\* ------------------------------------------------------------------------
\* The OS backend's ReadLink over the native tree D (native path, relative
\* to the directory of DirFS, to the entry's mode and data)
\* ------------------------------------------------------------------------

\* osFS.fullFilePath: filepath.Join(dir, name)
fullFilePath(dir, name) == Join(dir, name)

\* os.Readlink
osReadlink(D, full) ==
    IF full \notin DOMAIN D
    THEN IF full = DotStr \/ \E k \in DOMAIN D : HasPrefix(k, full \o <<Slash>>)
         THEN [err |-> ErrNotLink, target |-> <<>>]
         ELSE [err |-> ErrNotExist, target |-> <<>>]
    ELSE IF D[full].Mode # ModeSymlink THEN [err |-> ErrNotLink, target |-> <<>>]
    ELSE [err |-> Nil, target |-> D[full].Data]

\* osFS.ReadLink
osFS_ReadLink(v, D, name) ==
    IF ~ValidPath(name) THEN [err |-> ErrInvalid, target |-> <<>>]
    ELSE LET rl == osReadlink(D, fullFilePath(v.dir, name))
         IN IF rl.err # Nil THEN rl
            ELSE IF targetErr(name, rl.target) # Nil
            THEN [err |-> targetErr(name, rl.target), target |-> <<>>]
            ELSE [err |-> Nil, target |-> rl.target]

\* osFS.Sub: a new osFS rooted at the joined directory
osFS_Sub(v, dir) ==
    IF ~ValidPath(dir) THEN [err |-> ErrInvalid, fs |-> None]
    ELSE [err |-> Nil, fs |-> Some(OsFS(Join(v.dir, dir)))]

\* ------------------------------------------------------------------------
\* The masking decorator (maskFS) over the map or one of its Sub views
\* ------------------------------------------------------------------------

\* the predicates clients mask with, as data
FilterAll == [kind |-> "all"]

\* hides every path that has seg among its elements
FilterSeg(seg) == [kind |-> "segment", seg |-> seg]

\* hides the one path q
FilterExact(q) == [kind |-> "exact", p |-> q]

\* hides symbolic links
FilterNoLinks == [kind |-> "nolinks"]

\* fails on every path
FilterFail == [kind |-> "fail"]

\* f.filter(p, entry): the verdict and the predicate's own error
FilterEval(filter, p, entry) ==
    CASE filter.kind = "all" -> [ok |-> TRUE, err |-> Nil]
      [] filter.kind = "segment" ->
            [ok |-> \A i \in 1..Len(Elems(p)) : Elems(p)[i] # filter.seg, err |-> Nil]
      [] filter.kind = "exact" -> [ok |-> p # filter.p, err |-> Nil]
      [] filter.kind = "nolinks" -> [ok |-> entry.Mode # ModeSymlink, err |-> Nil]
      [] OTHER -> [ok |-> FALSE, err |-> ErrFilter]

\* fs.FileInfoToDirEntry
FileInfoToDirEntry(info) == [Name |-> info.Name, Mode |-> info.Mode]

\* a check that hides a path whose directory the predicate hides as well
checkFilterAbove(v, name, info) ==
    LET verdict(fr, up) ==
          IF fr.err # Nil THEN [err |-> ErrFilter]
          ELSE IF ~fr.ok \/ ~up.ok THEN [err |-> ErrMaskedPerm]
          ELSE info
    IN verdict(FilterEval(v.filter, Join(v.dir, name), FileInfoToDirEntry(info)),
               FilterEval(v.filter, Dir(Join(v.dir, name)),
                          [Name |-> Base(Dir(Join(v.dir, name))), Mode |-> ModeDir]))

\* the tail of checkFileStat and checkFileLstat: the predicate decides on
\* the descriptor info of name
checkFilter(v, name, info) ==
    LET verdict(fr) ==
          IF fr.err # Nil THEN [err |-> ErrFilter]
          ELSE IF ~fr.ok THEN [err |-> ErrMaskedPerm]
          ELSE info
    IN verdict(FilterEval(v.filter, Join(v.dir, name), FileInfoToDirEntry(info)))

\* a check that reports a masked entry as absent
checkFileStatAbsent(v, F, R, name) ==
    IF ~ValidPath(name) THEN [err |-> ErrInvalid]
    ELSE LET info == MapView_Stat(v.fsys[1], F, R, name)
         IN IF info.err # Nil THEN [err |-> info.err]
            ELSE IF checkFilter(v, name, info).err = ErrMaskedPerm
            THEN [err |-> ErrNotExist]
            ELSE checkFilter(v, name, info)

\* maskFS.checkFileStat
checkFileStat(v, F, R, name) ==
    IF ~ValidPath(name) THEN [err |-> ErrInvalid]
    ELSE LET check(info) ==
               IF info.err # Nil THEN [err |-> info.err] ELSE checkFilter(v, name, info)
         IN check(MapView_Stat(v.fsys[1], F, R, name))

\* maskFS.checkFileLstat
checkFileLstat(v, F, R, name) ==
    IF ~ValidPath(name) THEN [err |-> ErrInvalid]
    ELSE LET check(info) ==
               IF info.err # Nil THEN [err |-> info.err] ELSE checkFilter(v, name, info)
         IN check(MapView_Lstat(v.fsys[1], F, R, name))

\* maskFS.Open
maskFS_Open(v, F, R, name) ==
    LET after(c) ==
          IF c.err # Nil THEN [err |-> c.err]
          ELSE MapView_Open(v.fsys[1], F, R, name)
    IN after(checkFileStat(v, F, R, name))

\* maskFS.Stat
maskFS_Stat(v, F, R, name) == checkFileStat(v, F, R, name)

\* a loop that keeps every entry
filterEntriesKeep(v, name, entries, res) == [err |-> Nil, Entries |-> res \o entries]

\* the loop of maskFS.ReadDir over the wrapped listing: res holds the
\* entries kept so far; the predicate's first error ends it
RECURSIVE filterEntries(_, _, _, _)
filterEntries(v, name, entries, res) ==
    IF entries = <<>> THEN [err |-> Nil, Entries |-> res]
    ELSE LET i == Head(entries)
             fr == FilterEval(v.filter, Join3(v.dir, name, i.Name), i)
         IN IF fr.err # Nil THEN [err |-> ErrFilter]
            ELSE filterEntries(v, name, Tail(entries),
                               IF fr.ok THEN Append(res, i) ELSE res)

\* maskFS.ReadDir
maskFS_ReadDir(v, F, R, name) ==
    LET shown(rd) ==
          IF rd.err # Nil THEN [err |-> rd.err]
          ELSE filterEntries(v, name, rd.Entries, <<>>)
        after(c) ==
          IF c.err # Nil THEN [err |-> c.err]
          ELSE shown(MapView_ReadDir(v.fsys[1], F, R, name))
    IN after(checkFileStat(v, F, R, name))

\* maskFS.ReadFile
maskFS_ReadFile(v, F, R, name) ==
    LET after(c) ==
          IF c.err # Nil THEN [err |-> c.err]
          ELSE MapView_ReadFile(v.fsys[1], F, R, name)
    IN after(checkFileStat(v, F, R, name))

\* fs.Sub(fsys, dir) on the map or a Sub view: "." is the value itself
fsSub(inner, dir) ==
    IF ~ValidPath(dir) THEN [err |-> ErrInvalid, fs |-> None]
    ELSE IF dir = DotStr THEN [err |-> Nil, fs |-> Some(inner)]
    ELSE MapFS_Sub(inner, dir)

\* a Sub that does not add dir to the prefix of the view it returns
maskFS_SubNoPrefix(v, F, R, dir) ==
    LET c == checkFileStat(v, F, R, dir)
    IN IF c.err # Nil THEN [err |-> c.err, fs |-> None]
       ELSE LET sub == fsSub(v.fsys[1], dir)
            IN IF sub.err # Nil THEN sub
               ELSE [err |-> Nil, fs |-> Some(MaskFS(sub.fs[1], v.dir, v.filter))]

\* maskFS.Sub: a mask with the same predicate over the wrapped Sub
maskFS_Sub(v, F, R, dir) ==
    LET wrap(sub) ==
          IF sub.err # Nil THEN sub
          ELSE [err |-> Nil, fs |-> Some(MaskFS(sub.fs[1], Join(v.dir, dir), v.filter))]
        after(c) ==
          IF c.err # Nil THEN [err |-> c.err, fs |-> None]
          ELSE wrap(fsSub(v.fsys[1], dir))
    IN after(checkFileStat(v, F, R, dir))

\* maskFS.Lstat
maskFS_Lstat(v, F, R, name) == checkFileLstat(v, F, R, name)

\* maskFS.ReadLink
maskFS_ReadLink(v, F, R, name) ==
    LET after(c) ==
          IF c.err # Nil THEN [err |-> c.err, target |-> <<>>]
          ELSE MapView_ReadLink(v.fsys[1], F, R, name)
    IN after(checkFileLstat(v, F, R, name))

\* ------------------------------------------------------------------------
\* Glob (io/fs), as every Glob method of the repository calls it
\* ------------------------------------------------------------------------

\* the one pattern character clients use
Star == "*"

\* hasMeta: the pattern has a magic character
hasMeta(pattern) == \E i \in 1..Len(pattern) : pattern[i] = Star

\* path.Match of a pattern of literals and stars against a name: a star
\* matches any run of characters that are no slash
RECURSIVE Match(_, _)
Match(pattern, name) ==
    IF pattern = <<>> THEN name = <<>>
    ELSE IF Head(pattern) = Star
    THEN \E k \in 0..Len(name) :
            /\ \A i \in 1..k : name[i] # Slash
            /\ Match(Tail(pattern), SubSeq(name, k + 1, Len(name)))
    ELSE name # <<>> /\ Head(name) = Head(pattern) /\ Match(Tail(pattern), Tail(name))

\* cleanGlobPath of path.Split's dir: "." for the empty dir, else the dir
\* without its final slash
cleanGlobPath(dir) == IF dir = <<>> THEN DotStr ELSE SubSeq(dir, 1, Len(dir) - 1)

\* glob: the entries of dir that match the pattern, joined to dir, after
\* matches; a directory that cannot be read adds nothing
globDir(F, R, dir, pattern, matches) ==
    LET joined(found) == [i \in 1..Len(found) |-> Join(dir, found[i].Name)]
        add(rd) ==
          IF rd.err # Nil THEN matches
          ELSE matches \o
               joined(SelectSeq(rd.Entries, LAMBDA e : Match(pattern, e.Name)))
    IN add(MapReadDir(F, R, dir))

\* glob over every directory of dirs in turn
RECURSIVE globDirs(_, _, _, _, _)
globDirs(F, R, dirs, pattern, matches) ==
    IF dirs = <<>> THEN matches
    ELSE globDirs(F, R, Tail(dirs), pattern, globDir(F, R, Head(dirs), pattern, matches))

ErrBadPattern == "ErrBadPattern"

\* fs.Glob on the map (fstest.MapFS.Glob)
RECURSIVE MapGlob(_, _, _)
MapGlob(F, R, pattern) ==
    IF ~hasMeta(pattern)
    THEN [err |-> Nil,
          Paths |-> IF MapStat(F, R, pattern).err # Nil THEN <<>> ELSE <<pattern>>]
    ELSE LET below(m, file) ==
               IF m.err # Nil THEN m
               ELSE [err |-> Nil, Paths |-> globDirs(F, R, m.Paths, file, <<>>)]
             split(dir, file) ==
               IF ~hasMeta(dir)
               THEN [err |-> Nil, Paths |-> globDir(F, R, dir, file, <<>>)]
               ELSE IF dir = pattern THEN [err |-> ErrBadPattern, Paths |-> <<>>]
               ELSE below(MapGlob(F, R, dir), file)
         IN split(cleanGlobPath(SubSeq(pattern, 1, LastSlash(pattern))),
                  SubSeq(pattern, LastSlash(pattern) + 1, Len(pattern)))

\* shorten of fs.Sub's view: a name of the map as a name below dir
shorten(dir, name) ==
    IF name = dir THEN [ok |-> TRUE, name |-> DotStr]
    ELSE IF Len(name) >= Len(dir) + 2 /\ HasPrefix(name, dir \o <<Slash>>)
    THEN [ok |-> TRUE, name |-> SubSeq(name, Len(dir) + 2, Len(name))]
    ELSE [ok |-> FALSE, name |-> <<>>]

\* Glob of fs.Sub's view of dir: the pattern is matched below dir and the
\* matches are shortened
SubGlob(dir, F, R, pattern) ==
    IF pattern = DotStr THEN [err |-> Nil, Paths |-> <<DotStr>>]
    ELSE LET short(list) ==
               IF \E i \in 1..Len(list.Paths) : ~shorten(dir, list.Paths[i]).ok
               THEN [err |-> ErrInvalid, Paths |-> <<>>]
               ELSE [err |-> list.err,
                     Paths |-> [i \in 1..Len(list.Paths) |->
                                  shorten(dir, list.Paths[i]).name]]
         IN short(MapGlob(F, R, dir \o <<Slash>> \o pattern))

\* MapFS.Glob and subdirFS.Glob
MapView_Glob(v, F, R, pattern) ==
    IF goesToMap(v) THEN MapGlob(F, R, pattern) ELSE SubGlob(v.dir, F, R, pattern)

\* maskFS.Glob
maskFS_Glob(v, F, R, pattern) == MapView_Glob(v.fsys[1], F, R, pattern)

\* an OpenFile that returns every error of the check, absence included
maskFS_OpenFileStrict(v, F, R, name, flag, mode, now) ==
    LET c == checkFileStat(v, F, R, name)
    IN IF c.err # Nil THEN OpenFail(c.err, F, R, 0)
       ELSE MapView_OpenFile(v.fsys[1], F, R, name, flag, mode, now)

\* maskFS.OpenFile: the check's error is returned when it says masked or
\* anything but not-exist; an absent name goes on to the wrapped OpenFile
maskFS_OpenFile(v, F, R, name, flag, mode, now) ==
    LET after(c) ==
          IF c.err # Nil /\ (ErrIs(c.err, ErrFileMasked) \/ ~ErrIs(c.err, ErrNotExist))
          THEN OpenFail(c.err, F, R, 0)
          ELSE MapView_OpenFile(v.fsys[1], F, R, name, flag, mode, now)
    IN after(checkFileStat(v, F, R, name))

\* NewMaskFS
NewMaskFS(fsys, filter) == MaskFS(fsys, <<>>, filter)

\* ------------------------------------------------------------------------
\* kfs.WriteFile
\* ------------------------------------------------------------------------

OCreateTrunc == Flag(OWrOnly, TRUE, FALSE, TRUE, FALSE)

\* kfs.WriteFile(fsys, name, data, perm) on the map or a Sub view: open
\* write-only+create+truncate, write, and close on every path after a
\* successful open; now is the clock before the call
\* kfs.WriteFile after its OpenFile returned o: Write, then the deferred Close
writeOpened(o, data, now) ==
    IF o.err # Nil THEN [err |-> o.err, F |-> o.F, R |-> o.R, now |-> now + o.ticks]
    ELSE LET w == mapFile_Write(o.file[1], data)
             c == mapFile_Close(o.F, o.R, w.file, now + o.ticks + 1)
         IN [err |-> IF w.err # Nil THEN w.err ELSE c.err,
             F |-> c.F, R |-> c.R, now |-> now + o.ticks + c.ticks]

WriteFile(v, F, R, name, data, perm, now) ==
    writeOpened(MapView_OpenFile(v, F, R, name, OCreateTrunc, perm, now + 1), data, now)

\* kfs.WriteFile(fsys, name, data, perm) on the decorator
maskWriteFile(v, F, R, name, data, perm, now) ==
    writeOpened(maskFS_OpenFile(v, F, R, name, OCreateTrunc, perm, now + 1), data, now)

\* ------------------------------------------------------------------------
\* Removal and times on Sub views of the map
\* ------------------------------------------------------------------------

\* subdirFS.Remove
subdirFS_Remove(dir, F, name) ==
    IF ~ValidPath(name) THEN [err |-> ErrInvalid, F |-> F]
    ELSE MapFS_Remove(F, Join(dir, name))

\* subdirFS.RemoveAll
subdirFS_RemoveAll(dir, F, name) ==
    IF ~ValidPath(name) THEN [err |-> ErrInvalid, F |-> F]
    ELSE MapFS_RemoveAll(F, Join(dir, name))

\* subdirFS.Chtimes
subdirFS_Chtimes(dir, F, R, name, mtime) ==
    IF ~ValidPath(name) THEN [err |-> ErrInvalid, R |-> R]
    ELSE MapFS_Chtimes(F, R, Join(dir, name), mtime)

\* ------------------------------------------------------------------------
\* Values without the optional capabilities, the read-only decorator
\* (readOnlyFS) and the capability dispatch helpers of package kfs
\* ------------------------------------------------------------------------

KPlainFS == "fstest.MapFS"

KReadOnlyFS == "readOnlyFS"

\* the map m.Fsys as a filesystem value of its own: fstest.MapFS, or
\* fs.Sub's view of it below dir; neither has an optional capability
PlainFS(dir) == [kind |-> KPlainFS, dir |-> dir, fsys |-> None]

\* &readOnlyFS{fsys}
ReadOnlyFS(inner) == [kind |-> KReadOnlyFS, fsys |-> Some(inner)]

\* NewReadOnlyFS
NewReadOnlyFS(fsys) == ReadOnlyFS(fsys)

\* the MapFS or subdirFS that reads through the same fstest.MapFS or
\* fs.Sub view as the plain value v does
asMapView(v) ==
    IF v.kind # KPlainFS THEN v
    ELSE IF v.dir = <<>> THEN TheMapFS ELSE SubdirFS(v.dir)

\* fsys.Open, fs.Stat, fs.ReadFile, fs.ReadDir, fs.Glob and fs.Sub on a
\* value that is no read-only decorator: its own method
fsRead(op, v, F, R, name) ==
    IF v.kind = KMaskFS
    THEN CASE op = "Open" -> maskFS_Open(v, F, R, name)
           [] op = "Stat" -> maskFS_Stat(v, F, R, name)
           [] op = "ReadFile" -> maskFS_ReadFile(v, F, R, name)
           [] op = "ReadDir" -> maskFS_ReadDir(v, F, R, name)
           [] op = "Glob" -> maskFS_Glob(v, F, R, name)
    ELSE CASE op = "Open" -> MapView_Open(asMapView(v), F, R, name)
           [] op = "Stat" -> MapView_Stat(asMapView(v), F, R, name)
           [] op = "ReadFile" -> MapView_ReadFile(asMapView(v), F, R, name)
           [] op = "ReadDir" -> MapView_ReadDir(asMapView(v), F, R, name)
           [] op = "Glob" -> MapView_Glob(asMapView(v), F, R, name)

\* fs.Sub(fsys, dir) on a value that is no read-only decorator
fsSubOf(v, F, R, dir) ==
    IF ~ValidPath(dir) THEN [err |-> ErrInvalid, fs |-> None]
    ELSE IF dir = DotStr THEN [err |-> Nil, fs |-> Some(v)]
    ELSE IF v.kind = KMaskFS THEN maskFS_Sub(v, F, R, dir)
    ELSE IF v.kind = KPlainFS
    THEN [err |-> Nil, fs |-> Some(PlainFS(Join(v.dir, dir)))]
    ELSE MapFS_Sub(v, dir)

\* the error of a dispatch helper whose narrowing failed
NotImplemented(op, name) == [err |-> ErrNotImplemented, op |-> op, path |-> name]

\* the types that declare each optional method
LstatFS == {KMapFS, KSubdirFS, KOsFS, KMaskFS, KReadOnlyFS}

ReadLinkFS == {KMapFS, KSubdirFS, KOsFS, KMaskFS, KReadOnlyFS}

WriteFS == {KMapFS, KSubdirFS, KOsFS, KMaskFS, KReadOnlyFS}

RemoveFS == {KMapFS, KSubdirFS, KOsFS, KReadOnlyFS}

RemoveAllFS == {KMapFS, KSubdirFS, KOsFS, KReadOnlyFS}

\* a decorator whose read methods all call Stat of the wrapped value
readOnlyFS_ReadStat(op, v, F, R, name) == fsRead("Stat", v.fsys[1], F, R, name)

\* readOnlyFS.Open, Stat, ReadDir, ReadFile, Glob: the wrapped value's
readOnlyFS_Read(op, v, F, R, name) == fsRead(op, v.fsys[1], F, R, name)

\* a Sub that hands out the wrapped value's Sub as it is
readOnlyFS_SubBare(v, F, R, dir) == fsSubOf(v.fsys[1], F, R, dir)

\* readOnlyFS.Sub: a read-only decorator around the wrapped value's Sub
readOnlyFS_Sub(v, F, R, dir) ==
    LET wrap(sub) ==
          IF sub.err # Nil THEN [err |-> sub.err, fs |-> None]
          ELSE [err |-> Nil, fs |-> Some(NewReadOnlyFS(sub.fs[1]))]
    IN wrap(fsSubOf(v.fsys[1], F, R, dir))

\* kfs.Lstat: the value's Lstat when it declares one; readOnlyFS.Lstat is
\* the helper again on the wrapped value
RECURSIVE kfs_Lstat(_, _, _, _)
kfs_Lstat(v, F, R, name) ==
    IF v.kind \notin LstatFS THEN NotImplemented("lstat", name)
    ELSE CASE v.kind = KReadOnlyFS -> kfs_Lstat(v.fsys[1], F, R, name)
           [] v.kind = KMaskFS -> maskFS_Lstat(v, F, R, name)
           [] OTHER -> MapView_Lstat(v, F, R, name)

\* kfs.ReadLink; readOnlyFS.ReadLink is the helper again on the wrapped value
RECURSIVE kfs_ReadLink(_, _, _, _)
kfs_ReadLink(v, F, R, name) ==
    IF v.kind \notin ReadLinkFS THEN NotImplemented("readlink", name) @@ [target |-> <<>>]
    ELSE CASE v.kind = KReadOnlyFS -> kfs_ReadLink(v.fsys[1], F, R, name)
           [] v.kind = KMaskFS -> maskFS_ReadLink(v, F, R, name)
           [] OTHER -> MapView_ReadLink(v, F, R, name)

\* readOnlyFS.OpenFile
readOnlyFS_OpenFile(v, F, R, name, flag, mode, now) ==
    OpenFail(ErrReadOnlyInvalid, F, R, 0)

\* an OpenFile helper that finds the capability in no value
kfs_OpenFileNever(v, F, R, name, flag, mode, now) ==
    NotImplemented("openfile", name) @@ OpenFail(ErrNotImplemented, F, R, 0)

\* kfs.OpenFile
kfs_OpenFile(v, F, R, name, flag, mode, now) ==
    IF v.kind \notin WriteFS
    THEN NotImplemented("openfile", name) @@ OpenFail(ErrNotImplemented, F, R, 0)
    ELSE CASE v.kind = KReadOnlyFS -> readOnlyFS_OpenFile(v, F, R, name, flag, mode, now)
           [] v.kind = KMaskFS -> maskFS_OpenFile(v, F, R, name, flag, mode, now)
           [] OTHER -> MapView_OpenFile(v, F, R, name, flag, mode, now)

\* readOnlyFS.Remove and readOnlyFS.RemoveAll
readOnlyFS_Remove(v, F, name) == [err |-> ErrReadOnlyInvalid, F |-> F]

\* kfs.Remove
kfs_Remove(v, F, name) ==
    IF v.kind \notin RemoveFS THEN NotImplemented("remove", name) @@ [F |-> F]
    ELSE CASE v.kind = KReadOnlyFS -> readOnlyFS_Remove(v, F, name)
           [] v.kind = KMapFS -> MapFS_Remove(F, name)
           [] v.kind = KSubdirFS -> subdirFS_Remove(v.dir, F, name)

\* kfs.RemoveAll
kfs_RemoveAll(v, F, name) ==
    IF v.kind \notin RemoveAllFS THEN NotImplemented("removeall", name) @@ [F |-> F]
    ELSE CASE v.kind = KReadOnlyFS -> readOnlyFS_Remove(v, F, name)
           [] v.kind = KMapFS -> MapFS_RemoveAll(F, name)
           [] v.kind = KSubdirFS -> subdirFS_RemoveAll(v.dir, F, name)

\* readOnlyFS.Chtimes
readOnlyFS_Chtimes(v, F, R, name, mtime) == [err |-> ErrReadOnlyInvalid, R |-> R]

\* the Chtimes method of a value that declares one
Chtimes(v, F, R, name, mtime) ==
    CASE v.kind = KReadOnlyFS -> readOnlyFS_Chtimes(v, F, R, name, mtime)
      [] v.kind = KMapFS -> MapFS_Chtimes(F, R, name, mtime)
      [] v.kind = KSubdirFS -> subdirFS_Chtimes(v.dir, F, R, name, mtime)

\* ------------------------------------------------------------------------
\* Bounds and the values clients call with
\* ------------------------------------------------------------------------

\* most bytes written through one handle, or by one WriteFile
MaxLen == 1

\* most handles held at once
MaxFiles == 2

\* the clock stops here: most readings of time.Now
MaxTime == 3

\* the bytes clients write
WriteBytes == {"b"}

\* strings over WriteBytes of length at most n
RECURSIVE StrsUpTo(_)
StrsUpTo(n) ==
    IF n = 0 THEN {<<>>}
    ELSE StrsUpTo(n - 1) \cup
         { Append(t, c) : t \in { u \in StrsUpTo(n - 1) : Len(u) = n - 1 }, c \in WriteBytes }

PathAB == <<"a", Slash, "b">>

PathA == <<"a">>

PathB == <<"b">>

PathC == <<"c">>

\* a name that is no valid path
PathBad == <<Slash, "a">>

\* the views and names the clients of the in-memory backend use
MapCalls == { <<TheMapFS, PathAB>>, <<SubdirFS(PathA), PathB>> }

ORead == Flag(ORdOnly, FALSE, FALSE, FALSE, FALSE)

OCreate == Flag(OWrOnly, TRUE, FALSE, FALSE, FALSE)

OCreateAppend == Flag(OWrOnly, TRUE, FALSE, FALSE, TRUE)

\* the flag words the clients of the handle machine open with
ClientFlags == {ORead, OCreate, OCreateAppend}

\* the mode argument of OpenFile
OpenModes == {ModeFile}

\* the path tables a run starts from: empty, or holding the file a/b and
\* the link c
SeedTables ==
    { <<>>,
      [k \in {PathAB, PathC} |->
          IF k = PathC THEN MapFile(<<"c">>, ModeSymlink, 1)
          ELSE MapFile(<<"a", "a">>, ModeFile, 1)] }

\* a value table as a map and records: one record per key
RECURSIVE Addresses(_)
Addresses(keys) ==
    IF keys = {} THEN <<>>
    ELSE LET k == CHOOSE q \in keys : \A t \in keys \ {q} : StrLess(q, t)
         IN <<k>> \o Addresses(keys \ {k})

SeedF(T) == LET ks == Addresses(DOMAIN T)
            IN [k \in DOMAIN T |-> CHOOSE i \in 1..Len(ks) : ks[i] = k]

SeedR(T) == LET ks == Addresses(DOMAIN T)
            IN [i \in 1..Len(ks) |-> T[ks[i]]]

\* ------------------------------------------------------------------------
\* State
\* ------------------------------------------------------------------------

VARIABLES
    Fsys,    \* MapFS.Fsys: stored key -> address of its record
    recs,    \* the records: address -> Data, Mode, ModTime
    files,   \* the handles OpenFile returned and the client still holds
    now,     \* the last reading of time.Now
    mask,    \* the decorator or view the client holds, if any
    last     \* the last call and what it returned

vars == <<Fsys, recs, files, now, mask, last>>

\* the records the map or a held handle still points to
Live(F, R, fl) ==
    LET used == { F[k] : k \in DOMAIN F } \cup { fl[h].file.f : h \in DOMAIN fl }
    IN [a \in used |-> R[a]]

\* the number of the next handle: the smallest one not held
NewFile(fl) == CHOOSE h \in 1..(Cardinality(DOMAIN fl) + 1) : h \notin DOMAIN fl

\* the content a view shows at a name, empty when there is no file
ContentAt(v, F, R, name) ==
    LET rf == MapView_ReadFile(v, F, R, name)
    IN IF rf.err = Nil THEN rf.Data ELSE <<>>

NoCall == [op |-> "none", err |-> Nil]

Init ==
    /\ \E T \in SeedTables : Fsys = SeedF(T) /\ recs = SeedR(T)
    /\ files = <<>>
    /\ now = 1
    /\ mask = None
    /\ last = NoCall

\* a client calls OpenFile on a view; a returned handle is kept with what
\* the client knows of it: the view and name, the flag word, the content
\* the name had before the call, the bytes written through it so far, and
\* the bytes another handle's Close has stored at its key since (over)
OpenFile(v, name, flag, mode) ==
    /\ Cardinality(DOMAIN files) < MaxFiles
    /\ LET o == MapView_OpenFile(v, Fsys, recs, name, flag, mode, now + 1)
           h == NewFile(files)
       IN /\ now + o.ticks <= MaxTime
          /\ Fsys' = o.F
          /\ now' = now + o.ticks
          /\ last' = [op |-> "OpenFile", err |-> o.err]
          /\ UNCHANGED mask
          /\ IF o.err # Nil
             THEN /\ files' = files
                  /\ recs' = Live(o.F, o.R, files)
             ELSE /\ files' = [k \in DOMAIN files \cup {h} |->
                                 IF k = h
                                 THEN [file |-> o.file[1], v |-> v, n |-> name,
                                       flag |-> flag,
                                       seed |-> ContentAt(v, Fsys, recs, name),
                                       wr |-> <<>>, over |-> None]
                                 ELSE files[k]]
                  /\ recs' = Live(o.F, o.R, files')

\* Write of bytes p through handle h
Write(h, p) ==
    /\ h \in DOMAIN files
    /\ Len(files[h].wr) + Len(p) <= MaxLen
    /\ LET w == mapFile_Write(files[h].file, p)
       IN /\ files' = [files EXCEPT ![h].file = w.file,
                                    ![h].wr = IF w.err = Nil THEN @ \o p ELSE @]
          /\ last' = [op |-> "Write", err |-> w.err]
    /\ UNCHANGED <<Fsys, recs, now, mask>>

\* Close of handle h, which the client then lets go of; the call is kept
\* with what the client knew of the handle
Close(h) ==
    /\ h \in DOMAIN files
    /\ LET c == mapFile_Close(Fsys, recs, files[h].file, now + 1)
           stores == files[h].file.b # None
       IN /\ now + c.ticks <= MaxTime
          /\ Fsys' = c.F
          /\ files' = [k \in DOMAIN files \ {h} |->
                          IF stores /\ files[k].file.path = files[h].file.path
                          THEN [files[k] EXCEPT !.over = Some(files[h].file.b[1])]
                          ELSE files[k]]
          /\ recs' = Live(c.F, c.R, files')
          /\ now' = now + c.ticks
          /\ last' = [op |-> "Close", err |-> c.err, v |-> files[h].v,
                      n |-> files[h].n, flag |-> files[h].flag,
                      seed |-> files[h].seed, wr |-> files[h].wr,
                      over |-> files[h].over]
          /\ UNCHANGED mask

\* kfs.WriteFile on a view
CallWriteFile(v, name, data) ==
    /\ LET w == WriteFile(v, Fsys, recs, name, data, ModeFile, now)
       IN /\ w.now <= MaxTime
          /\ Fsys' = w.F
          /\ recs' = Live(w.F, w.R, files)
          /\ now' = w.now
          /\ last' = [op |-> "WriteFile", err |-> w.err, v |-> v, n |-> name,
                      data |-> data, was |-> ContentAt(v, Fsys, recs, name)]
    /\ UNCHANGED <<files, mask>>

Next ==
    \/ \E c \in MapCalls, flag \in ClientFlags, mode \in OpenModes :
          OpenFile(c[1], c[2], flag, mode)
    \/ \E h \in 1..MaxFiles, p \in { <<x>> : x \in WriteBytes } : Write(h, p)
    \/ \E h \in 1..MaxFiles : Close(h)
    \/ \E c \in MapCalls, data \in StrsUpTo(MaxLen) : CallWriteFile(c[1], c[2], data)

Spec == Init /\ [][Next]_vars

\* ------------------------------------------------------------------------
\* The handle machine: write, append, overlapping handles, commit on Close
\* ------------------------------------------------------------------------

IsWriteFlag(flag) == isReadWrite(flag)[2]

\* what a read-only OpenFile at a view and name shows: the error, the size
\* the handle's Stat reports and the bytes read to the end
ReadBack(v, name) ==
    LET o == MapView_OpenFile(v, Fsys, recs, name, ORead, ModeFile, now + 1)
    IN IF o.err # Nil THEN [err |-> o.err]
       ELSE [err |-> Nil,
             Size |-> mapFile_Stat(o.R, o.file[1]).Size,
             Data |-> ReadAll(o.file[1], 1)]

\* C1: after WriteFile(p, D) on the map or a Sub view, whatever p held
\* before, the call has succeeded, ReadFile(p) returns exactly D, and a
\* read-only OpenFile(p) handle reports size len(D) and reads exactly D
C1_WriteThenRead ==
    last.op = "WriteFile" =>
        /\ last.err = Nil
        /\ MapView_ReadFile(last.v, Fsys, recs, last.n).err = Nil
        /\ MapView_ReadFile(last.v, Fsys, recs, last.n).Data = last.data
        /\ ReadBack(last.v, last.n) =
             [err |-> Nil, Size |-> Len(last.data), Data |-> last.data]

\* WriteFile of "b" over a file that held other, longer content
C1_Witness ==
    /\ last.op = "WriteFile"
    /\ last.was = <<"a", "a">>
    /\ last.data = <<"b">>
    /\ ContentAt(last.v, Fsys, recs, last.n) = <<"b">>

\* C3: after Close of a handle opened write-only+create+append on p, on
\* the map or a Sub view, ReadFile(p) returns the content p had at the open
\* (nothing when p was absent) followed by the bytes written through the
\* handle
C3_AppendKeepsContent ==
    (last.op = "Close" /\ last.flag = OCreateAppend) =>
        /\ MapView_ReadFile(last.v, Fsys, recs, last.n).err = Nil
        /\ MapView_ReadFile(last.v, Fsys, recs, last.n).Data = last.seed \o last.wr

\* an append through a Sub view to a file with content, no other handle
\* having stored in between
C3_Witness ==
    /\ last.op = "Close"
    /\ last.flag = OCreateAppend
    /\ last.v.kind = KSubdirFS
    /\ last.seed = <<"a", "a">>
    /\ last.wr = <<"b">>
    /\ last.over = None
    /\ ContentAt(last.v, Fsys, recs, last.n) = <<"a", "a", "b">>

\* the buffer of a handle as its client knows it: the content at the open
\* when appending, then its own writes
ClientBuffer(flag, seed, wr) == (IF flag.append THEN seed ELSE <<>>) \o wr

\* C4: after Close of a write handle the record's content is exactly that
\* handle's buffer, whatever other handles on the same path wrote or
\* stored while it was open: the handle closed last wins
C4_LastCloseWins ==
    (last.op = "Close" /\ IsWriteFlag(last.flag)) =>
        ContentAt(last.v, Fsys, recs, last.n) =
            ClientBuffer(last.flag, last.seed, last.wr)

\* two write handles overlapped: the other stored "b" first, this one wrote
\* nothing and closed last, and no handle is left open
C4_Witness ==
    /\ last.op = "Close"
    /\ last.flag = OCreate
    /\ last.over = Some(<<"b">>)
    /\ last.wr = <<>>
    /\ files = <<>>
    /\ MapView_ReadFile(last.v, Fsys, recs, last.n).err = Nil
    /\ ContentAt(last.v, Fsys, recs, last.n) = <<>>

\* the path table after a record with the given bytes and time is stored
\* at key p: the other keys keep their records
Stored(T, p, data, time) ==
    \E mode \in {ModeFile, ModeSymlink, ModeDir} :
        Table(Fsys', recs') =
            [k \in DOMAIN T \cup {p} |->
                IF k = p THEN MapFile(data, mode, time) ELSE T[k]]

\* C5: a Write changes nothing in the path table; Close of a write handle
\* replaces, in that one step, the record at the handle's path with one
\* holding exactly the buffer's bytes and a later modtime; Close of a read
\* handle changes nothing in the path table
C5_CommitOnClose ==
    [][ /\ \A h \in DOMAIN files, p \in { <<x>> : x \in WriteBytes } :
              Write(h, p) => Table(Fsys', recs') = Table(Fsys, recs)
        /\ \A h \in DOMAIN files :
              Close(h) =>
                 IF files[h].file.b # None
                 THEN /\ Stored(Table(Fsys, recs), files[h].file.path,
                                files[h].file.b[1], now')
                      /\ now' > now
                      /\ \A k \in DOMAIN Fsys : now' > recs[Fsys[k]].ModTime
                 ELSE Table(Fsys', recs') = Table(Fsys, recs)
      ]_vars

\* a handle holds written bytes that the path table does not show
C5_Witness ==
    \E h \in DOMAIN files :
        /\ files[h].wr = <<"b">>
        /\ files[h].file.b = Some(<<"b">>)
        /\ files[h].seed = <<"a", "a">>
        /\ ContentAt(files[h].v, Fsys, recs, files[h].n) = <<"a", "a">>

\* ------------------------------------------------------------------------
\* The open-flag table
\* ------------------------------------------------------------------------

\* the names probed: a/b and the link c on the map, b on the view of a
ProbeCalls == MapCalls \cup { <<TheMapFS, PathC>> }

\* a client calls OpenFile with any flag word and lets go of the handle
\* without closing it
Probe(v, name, flag) ==
    /\ LET o == MapView_OpenFile(v, Fsys, recs, name, flag, ModeFile, now + 1)
       IN /\ now + o.ticks <= MaxTime
          /\ Fsys' = o.F
          /\ recs' = Live(o.F, o.R, files)
          /\ now' = now + o.ticks
          /\ last' = [op |-> "Probe", err |-> o.err, v |-> v, n |-> name,
                      flag |-> flag,
                      was |-> Lookup(Fsys, subFullName(v.dir, name)) # NoAddr]
    /\ UNCHANGED <<files, mask>>

NextOpen ==
    \/ \E c \in ProbeCalls, flag \in Flags : Probe(c[1], c[2], flag)
    \/ \E c \in MapCalls, data \in StrsUpTo(MaxLen) : CallWriteFile(c[1], c[2], data)

SpecOpen == Init /\ [][NextOpen]_vars

\* the open-flag table, rows in order: the first row that matches decides
FlagTable(flag, present) ==
    IF flag.acc \notin {ORdOnly, OWrOnly, ORdWr} THEN ErrInvalid
    ELSE IF flag.acc = ORdWr THEN ErrInvalid
    ELSE IF flag.excl /\ ~flag.create THEN ErrInvalid
    ELSE IF flag.create /\ flag.acc # OWrOnly THEN ErrInvalid
    ELSE IF ~present /\ ~flag.create THEN ErrNotExist
    ELSE IF present /\ flag.excl THEN ErrExist
    ELSE IF (flag.trunc \/ flag.append) /\ flag.acc # OWrOnly THEN ErrInvalid
    ELSE Nil

\* C2: OpenFile on a canonical name returns, for every access mode,
\* create, exclusive, truncate, append and record presence, the outcome of
\* the first matching row of the open-flag table
C2_OpenFlagTable ==
    last.op = "Probe" => last.err = FlagTable(last.flag, last.was)

\* read-only with truncate on an absent name: the NotExist row comes before
\* the truncate row
C2_Witness ==
    /\ last.op = "Probe"
    /\ last.flag = Flag(ORdOnly, FALSE, FALSE, TRUE, FALSE)
    /\ ~last.was
    /\ last.err = ErrNotExist

\* ------------------------------------------------------------------------
\* Symbolic links: ReadLink on the map, its Sub views and the OS backend
\* ------------------------------------------------------------------------

\* the longest target built from LinkChars
MaxTarget == 3

LinkChars == {"a", Dot, Slash}

\* the strings over LinkChars of length 1 to n
RECURSIVE TargetsUpTo(_)
TargetsUpTo(n) ==
    IF n = 0 THEN {}
    ELSE LET shorter == TargetsUpTo(n - 1)
         IN shorter \cup { <<c>> : c \in LinkChars }
                    \cup { Append(t, c) : t \in { u \in shorter : Len(u) = n - 1 },
                                          c \in LinkChars }

PathL == <<"l">>

PathAL == <<"a", Slash, "l">>

PathABL == <<"a", Slash, "b", Slash, "l">>

PathBL == <<"b", Slash, "l">>

PathX == <<"x">>

\* "a/link.txt"
LinkTxt == <<"a", Slash, "l", "i", "n", "k", Dot, "t", "x", "t">>

\* "../outside.txt"
OutsideTxt == <<Dot, Dot, Slash, "o", "u", "t", "s", "i", "d", "e", Dot, "t", "x", "t">>

\* "../../outside.txt"
Outside2Txt == <<Dot, Dot, Slash>> \o OutsideTxt

\* "sibling.txt"
SiblingTxt == <<"s", "i", "b", "l", "i", "n", "g", Dot, "t", "x", "t">>

\* where the link of a run is stored, and what it points to
LinkPaths == {PathL, PathAL, PathABL, LinkTxt}

Targets == TargetsUpTo(MaxTarget) \cup {OutsideTxt, Outside2Txt, SiblingTxt}

\* the stored entries of a run: one link and the regular file x; the map
\* holds them as records, the directory of the OS backend as entries
LinkTable(L, T) ==
    [k \in {L, PathX} |->
        IF k = L THEN MapFile(T, ModeSymlink, 1) ELSE MapFile(<<"x">>, ModeFile, 1)]

InitLink ==
    /\ \E L \in LinkPaths, T \in Targets :
          Fsys = SeedF(LinkTable(L, T)) /\ recs = SeedR(LinkTable(L, T))
    /\ files = <<>>
    /\ now = 1
    /\ mask = None
    /\ last = NoCall

\* the directories clients call Sub with, one after the other
SubChains == { <<>>, <<PathA>>, <<PathA, PathB>> }

\* the names clients call ReadLink with
LinkNames == {PathL, PathAL, PathBL, PathABL, LinkTxt, PathX}

\* the view after calling Sub with each directory of dirs in turn
RECURSIVE MapSubChain(_, _)
MapSubChain(v, dirs) ==
    IF dirs = <<>> THEN v ELSE MapSubChain(MapFS_Sub(v, Head(dirs)).fs[1], Tail(dirs))

RECURSIVE OsSubChain(_, _)
OsSubChain(v, dirs) ==
    IF dirs = <<>> THEN v ELSE OsSubChain(osFS_Sub(v, Head(dirs)).fs[1], Tail(dirs))

\* ReadLink(name) on the map or on the view that calling Sub along dirs
\* gives
MapReadLink(dirs, name) ==
    /\ LET v == MapSubChain(TheMapFS, dirs)
           rl == MapView_ReadLink(v, Fsys, recs, name)
       IN last' = [op |-> "ReadLink", v |-> v, n |-> name,
                   err |-> rl.err, target |-> rl.target]
    /\ UNCHANGED <<Fsys, recs, files, now, mask>>

\* ReadLink(name) on the OS backend, the entries being those of its
\* directory
OsReadLink(dirs, name) ==
    /\ LET v == OsSubChain(OsFS(<<>>), dirs)
           rl == osFS_ReadLink(v, Table(Fsys, recs), name)
       IN last' = [op |-> "ReadLink", v |-> v, n |-> name,
                   err |-> rl.err, target |-> rl.target]
    /\ UNCHANGED <<Fsys, recs, files, now, mask>>

NextLink ==
    \/ \E dirs \in SubChains, name \in LinkNames : MapReadLink(dirs, name)
    \/ \E dirs \in SubChains, name \in LinkNames : OsReadLink(dirs, name)

SpecLink == InitLink /\ [][NextLink]_vars

\* the raw target stored for name below a view, if name is a link there
RawAt(v, name) ==
    LET key == Join(v.dir, name)
    IN IF key \in DOMAIN Fsys /\ recs[Fsys[key]].Mode = ModeSymlink
       THEN Some(recs[Fsys[key]].Data) ELSE None

\* walking the elements of a target from depth d below the root never
\* steps above the root
RECURSIVE StaysBelow(_, _)
StaysBelow(es, d) ==
    IF es = <<>> THEN TRUE
    ELSE IF Head(es) = <<>> \/ Head(es) = DotStr THEN StaysBelow(Tail(es), d)
    ELSE IF Head(es) = DotDot THEN d > 0 /\ StaysBelow(Tail(es), d - 1)
    ELSE StaysBelow(Tail(es), d + 1)

\* target T of a link at canonical path L stays in the tree: T is not
\* absolute and dirname(L) + "/" + T normalizes to a canonical path
InTree(L, T) == ~IsAbs(T) /\ StaysBelow(Elems(T), Len(Elems(L)) - 1)

\* the last call was ReadLink of a link, on the whole map or OS backend
\* when root is TRUE
LinkRead(root) ==
    /\ last.op = "ReadLink"
    /\ root => (last.v.kind \in {KMapFS, KOsFS} /\ last.v.dir = <<>>)
    /\ ValidPath(last.n)
    /\ RawAt(last.v, last.n) # None

\* C6: on the OS backend and on the in-memory backend alike, ReadLink of a
\* link at canonical path L with raw target T returns T unchanged exactly
\* when T is not absolute and dirname(L)/T normalizes to an in-tree path,
\* and fails with TargetOutsideFS in every other case
C6_Containment ==
    LinkRead(TRUE) =>
        LET T == RawAt(last.v, last.n)[1]
        IN IF InTree(last.n, T)
           THEN last.err = Nil /\ last.target = T
           ELSE last.err = ErrTargetOutsideFS

\* the OS backend returns a target that climbs, the link being deep enough
C6_Witness ==
    /\ LinkRead(TRUE)
    /\ last.v.kind = KOsFS
    /\ last.n = PathABL
    /\ last.err = Nil
    /\ last.target = DotDot

\* C7 as stated: the link at "a/link.txt" with target "../outside.txt" is
\* rejected with TargetOutsideFS, and with target "sibling.txt" ReadLink
\* returns "sibling.txt"
C7_AsStated ==
    (LinkRead(TRUE) /\ last.n = LinkTxt) =>
        /\ RawAt(last.v, last.n) = Some(OutsideTxt) => last.err = ErrTargetOutsideFS
        /\ RawAt(last.v, last.n) = Some(SiblingTxt) =>
              (last.err = Nil /\ last.target = SiblingTxt)

\* C7: the link at "a/link.txt" with target "../outside.txt" is read back
\* unchanged, its target being "outside.txt" at the root; with target
\* "../../outside.txt" it is rejected with TargetOutsideFS; with target
\* "sibling.txt" ReadLink returns "sibling.txt"
C7_Amended ==
    (LinkRead(TRUE) /\ last.n = LinkTxt) =>
        /\ RawAt(last.v, last.n) = Some(OutsideTxt) =>
              (last.err = Nil /\ last.target = OutsideTxt)
        /\ RawAt(last.v, last.n) = Some(Outside2Txt) => last.err = ErrTargetOutsideFS
        /\ RawAt(last.v, last.n) = Some(SiblingTxt) =>
              (last.err = Nil /\ last.target = SiblingTxt)

\* the map returns "../outside.txt" for the link at "a/link.txt"
C7_Witness ==
    /\ LinkRead(TRUE)
    /\ last.v.kind = KMapFS
    /\ last.n = LinkTxt
    /\ RawAt(last.v, last.n) = Some(OutsideTxt)
    /\ last.err = Nil
    /\ last.target = OutsideTxt

\* C8: a target that ReadLink(name) returns, on any view, resolves from
\* name's directory to a path inside that view's own root
C8_InsideOwnRoot ==
    (LinkRead(FALSE) /\ last.err = Nil) => InTree(last.n, last.target)

\* a Sub view of the map returns a target that leaves the view
C8_Witness ==
    /\ LinkRead(FALSE)
    /\ last.v = SubdirFS(PathA)
    /\ last.n = PathL
    /\ last.err = Nil
    /\ last.target = DotDot

\* ------------------------------------------------------------------------
\* The masking decorator at work
\* ------------------------------------------------------------------------

\* ".git"
DotGit == <<Dot, "g", "i", "t">>

PathGitC == DotGit \o <<Slash, "c">>

PathAGit == PathA \o <<Slash>> \o DotGit

\* the entries of a masked run: the files .git/c, a/.git, a/b and x and the
\* link l to a/b
MaskTable ==
    [k \in {PathGitC, PathAGit, PathAB, PathX, PathL} |->
        IF k = PathL THEN MapFile(PathAB, ModeSymlink, 1)
        ELSE MapFile(<<"x">>, ModeFile, 1)]

\* what clients wrap, and the predicates they wrap it with
MaskBases == {TheMapFS, SubdirFS(PathA)}

Filters == {FilterAll, FilterSeg(DotGit), FilterExact(PathA), FilterExact(PathAB),
            FilterNoLinks, FilterFail}

\* the names clients call the decorator with
MaskNames == {DotStr, PathA, PathAB, PathB, DotGit, PathAGit, PathL, PathBad}

InitMask ==
    /\ Fsys = SeedF(MaskTable)
    /\ recs = SeedR(MaskTable)
    /\ files = <<>>
    /\ now = 1
    /\ \E base \in MaskBases, filter \in Filters : mask = Some(NewMaskFS(base, filter))
    /\ last = [op |-> "NewMaskFS", m |-> mask[1]]

\* a call on the decorator that leaves the client with the same decorator;
\* m is the decorator NewMaskFS made, which the client's view descends from
MaskCall(op, name, res) ==
    /\ mask # None
    /\ last' = [op |-> op, v |-> mask[1], n |-> name, res |-> res, m |-> last.m]
    /\ UNCHANGED <<Fsys, recs, files, now, mask>>

MaskOpen(name) == MaskCall("Open", name, maskFS_Open(mask[1], Fsys, recs, name))

MaskStat(name) == MaskCall("Stat", name, maskFS_Stat(mask[1], Fsys, recs, name))

MaskReadFile(name) == MaskCall("ReadFile", name, maskFS_ReadFile(mask[1], Fsys, recs, name))

MaskReadDir(name) == MaskCall("ReadDir", name, maskFS_ReadDir(mask[1], Fsys, recs, name))

MaskLstat(name) == MaskCall("Lstat", name, maskFS_Lstat(mask[1], Fsys, recs, name))

MaskReadLink(name) == MaskCall("ReadLink", name, maskFS_ReadLink(mask[1], Fsys, recs, name))

\* the patterns clients glob with: "*", "a/*", "*/*" and ".git"
GlobPatterns == {<<Star>>, PathA \o <<Slash, Star>>, <<Star, Slash, Star>>, DotGit}

MaskGlob(pattern) == MaskCall("Glob", pattern, maskFS_Glob(mask[1], Fsys, recs, pattern))

\* Sub on the decorator; the client goes on with the view it returns
MaskSub(dir) ==
    /\ mask # None
    /\ LET res == maskFS_Sub(mask[1], Fsys, recs, dir)
       IN /\ last' = [op |-> "Sub", v |-> mask[1], n |-> dir, res |-> res, m |-> last.m]
          /\ mask' = IF res.err = Nil THEN res.fs ELSE mask
    /\ UNCHANGED <<Fsys, recs, files, now>>

NextMask ==
    \/ \E name \in MaskNames : MaskOpen(name)
    \/ \E name \in MaskNames : MaskStat(name)
    \/ \E name \in MaskNames : MaskReadFile(name)
    \/ \E name \in MaskNames : MaskReadDir(name)
    \/ \E name \in MaskNames : MaskLstat(name)
    \/ \E name \in MaskNames : MaskReadLink(name)
    \/ \E name \in MaskNames : MaskSub(name)
    \/ \E pattern \in GlobPatterns : MaskGlob(pattern)

SpecMask == InitMask /\ [][NextMask]_vars

MaskOps == {"Open", "Stat", "ReadFile", "ReadDir", "Sub", "Lstat", "ReadLink"}

\* what the wrapped filesystem returns for the same call
Wrapped(op, v, name) ==
    CASE op = "Open" -> MapView_Open(v.fsys[1], Fsys, recs, name)
      [] op = "Stat" -> MapView_Stat(v.fsys[1], Fsys, recs, name)
      [] op = "ReadFile" -> MapView_ReadFile(v.fsys[1], Fsys, recs, name)
      [] op = "ReadDir" -> MapView_ReadDir(v.fsys[1], Fsys, recs, name)
      [] op = "Sub" -> fsSub(v.fsys[1], name)
      [] op = "Lstat" -> MapView_Lstat(v.fsys[1], Fsys, recs, name)
      [] op = "ReadLink" -> MapView_ReadLink(v.fsys[1], Fsys, recs, name)

\* name is an existing entry of the wrapped filesystem
Exists(v, name) ==
    ValidPath(name) /\ MapView_Lstat(v.fsys[1], Fsys, recs, name).err = Nil

\* the predicate's verdict on path q below the decorator's root, with the
\* descriptor the wrapped filesystem gives for name
Verdict(v, name, q) ==
    FilterEval(v.filter, q,
               FileInfoToDirEntry(MapView_Lstat(v.fsys[1], Fsys, recs, name)))

\* the last call was made at an existing entry on which the predicate gave
\* the verdict ok
MaskedCall(ok) ==
    /\ last.op \in MaskOps
    /\ Exists(last.v, last.n)
    /\ Verdict(last.v, last.n, Join(last.v.dir, last.n)) = [ok |-> ok, err |-> Nil]

\* a failed call that hands out nothing of the entry
Refused(res) ==
    /\ ErrIs(res.err, ErrFileMasked)
    /\ ErrIs(res.err, ErrPermission)
    /\ ~ErrIs(res.err, ErrNotExist)
    /\ \A field \in DOMAIN res \ {"err"} : res[field] = <<>>

\* C9 as stated: at an existing entry the predicate hides, every read
\* operation of the decorator fails FileMasked and permission-denied, not
\* NotExist, with none of the entry's data; at an existing entry the
\* predicate shows, every one of them returns exactly what the wrapped
\* filesystem returns (Sub: succeeds or fails as the wrapped Sub does)
C9_AsStated ==
    /\ MaskedCall(FALSE) => Refused(last.res)
    /\ MaskedCall(TRUE) =>
          IF last.op = "Sub"
          THEN last.res.err = Wrapped(last.op, last.v, last.n).err
          ELSE last.res = Wrapped(last.op, last.v, last.n)

\* the children of the wrapped listing the predicate shows, in the
\* listing's order
Shown(v, name, entries) ==
    SelectSeq(entries,
              LAMBDA e : FilterEval(v.filter, Join3(v.dir, name, e.Name), e).ok)

\* the predicate gives a verdict on every child of the listing
Decides(v, name, entries) ==
    \A i \in 1..Len(entries) :
        FilterEval(v.filter, Join3(v.dir, name, entries[i].Name), entries[i]).err = Nil

\* C9: at an existing entry the predicate hides, every read operation of
\* the decorator fails FileMasked and permission-denied, not NotExist, with
\* none of the entry's data; at an existing entry the predicate shows,
\* Open, Stat, ReadFile, Lstat and ReadLink return exactly what the wrapped
\* filesystem returns, ReadDir returns the wrapped listing without the
\* children the predicate hides, and Sub returns a decorator with the same
\* predicate over the wrapped filesystem's Sub
C9_Amended ==
    /\ MaskedCall(FALSE) => Refused(last.res)
    /\ MaskedCall(TRUE) =>
          LET w == Wrapped(last.op, last.v, last.n)
          IN CASE last.op = "ReadDir" ->
                    IF w.err # Nil THEN last.res = w
                    ELSE Decides(last.v, last.n, w.Entries) =>
                            last.res = [err |-> Nil,
                                        Entries |-> Shown(last.v, last.n, w.Entries)]
               [] last.op = "Sub" ->
                    /\ w.err = Nil
                    /\ last.res = [err |-> Nil,
                                   fs |-> Some(MaskFS(w.fs[1], Join(last.v.dir, last.n),
                                                      last.v.filter))]
               [] OTHER -> last.res = w

\* ReadFile of the file a/.git, hidden by the predicate on the segment
\* ".git", is refused
C9_Witness ==
    /\ MaskedCall(FALSE)
    /\ last.op = "ReadFile"
    /\ last.v.filter = FilterSeg(DotGit)
    /\ Join(last.v.dir, last.n) = PathAGit
    /\ MapView_ReadFile(last.v.fsys[1], Fsys, recs, last.n).err = Nil
    /\ last.res = [err |-> ErrMaskedPerm]

\* C10: ReadDir of the decorator on a directory the predicate shows, the
\* predicate giving a verdict on every child, returns exactly the children
\* of the wrapped listing that the predicate shows on their full paths, in
\* the wrapped listing's order, and no error
C10_ReadDirFilters ==
    (MaskedCall(TRUE) /\ last.op = "ReadDir") =>
        LET w == MapView_ReadDir(last.v.fsys[1], Fsys, recs, last.n)
        IN (w.err = Nil /\ Decides(last.v, last.n, w.Entries)) =>
              /\ last.res.err = Nil
              /\ \A i \in 1..Len(last.res.Entries) :
                    \E j \in 1..Len(w.Entries) : last.res.Entries[i] = w.Entries[j]
              /\ \A j \in 1..Len(w.Entries) :
                    (\E i \in 1..Len(last.res.Entries) : last.res.Entries[i] = w.Entries[j])
                    <=> Verdict(last.v, Join(last.n, w.Entries[j].Name),
                                Join3(last.v.dir, last.n, w.Entries[j].Name)).ok
              /\ \A i, k \in 1..Len(last.res.Entries) :
                    i < k => StrLess(last.res.Entries[i].Name, last.res.Entries[k].Name)

\* the listing of the root without .git, its other children kept
C10_Witness ==
    /\ MaskedCall(TRUE)
    /\ last.op = "ReadDir"
    /\ last.n = DotStr
    /\ last.v.filter = FilterSeg(DotGit)
    /\ \E j \in 1..Len(MapView_ReadDir(last.v.fsys[1], Fsys, recs, last.n).Entries) :
          MapView_ReadDir(last.v.fsys[1], Fsys, recs, last.n).Entries[j].Name = DotGit
    /\ last.res.err = Nil
    /\ Len(last.res.Entries) >= 2
    /\ \A i \in 1..Len(last.res.Entries) : last.res.Entries[i].Name # DotGit

\* ------------------------------------------------------------------------
\* Glob through the decorator
\* ------------------------------------------------------------------------

\* the decorator refuses Stat of path p as masked
StatHides(v, p) == ErrIs(maskFS_Stat(v, Fsys, recs, p).err, ErrFileMasked)

\* C11: no operation of the decorator goes round the predicate: every path
\* a Glob of the decorator returns, and the predicate gives a verdict on,
\* is a path the predicate shows, so Glob returns no entry that Stat of the
\* same decorator refuses as masked
C11_GlobMasked ==
    (last.op = "Glob" /\ last.res.err = Nil) =>
        \A i \in 1..Len(last.res.Paths) :
            Verdict(last.v, last.res.Paths[i],
                    Join(last.v.dir, last.res.Paths[i])).err = Nil =>
                /\ Verdict(last.v, last.res.Paths[i],
                           Join(last.v.dir, last.res.Paths[i])).ok
                /\ ~StatHides(last.v, last.res.Paths[i])

\* Glob("*") of the decorator that hides the segment ".git" returns ".git",
\* which Stat of the same decorator refuses as masked
C11_Witness ==
    /\ last.op = "Glob"
    /\ last.n = <<Star>>
    /\ last.v = NewMaskFS(TheMapFS, FilterSeg(DotGit))
    /\ last.res.err = Nil
    /\ \E i \in 1..Len(last.res.Paths) : last.res.Paths[i] = DotGit
    /\ maskFS_Stat(last.v, Fsys, recs, DotGit) = [err |-> ErrMaskedPerm]

\* ------------------------------------------------------------------------
\* The predicate's path on views returned by Sub
\* ------------------------------------------------------------------------

\* operation op of decorator v at name
MaskOp(op, v, name) ==
    CASE op = "Open" -> maskFS_Open(v, Fsys, recs, name)
      [] op = "Stat" -> maskFS_Stat(v, Fsys, recs, name)
      [] op = "ReadFile" -> maskFS_ReadFile(v, Fsys, recs, name)
      [] op = "ReadDir" -> maskFS_ReadDir(v, Fsys, recs, name)
      [] op = "Sub" -> maskFS_Sub(v, Fsys, recs, name)
      [] op = "Lstat" -> maskFS_Lstat(v, Fsys, recs, name)
      [] op = "ReadLink" -> maskFS_ReadLink(v, Fsys, recs, name)

\* C12: an operation at a canonical name n on a view that Sub calls made of
\* decorator m, d being the directories of those calls joined, is masked
\* exactly when the same operation at join(d, n) is masked on m: the
\* predicate sees the path from the root of m
C12_SubFullPath ==
    (last.op \in MaskOps /\ ValidPath(last.n)) =>
        (ErrIs(last.res.err, ErrFileMasked)
            <=> ErrIs(MaskOp(last.op, last.m, Join(last.v.dir, last.n)).err,
                      ErrFileMasked))

\* ReadFile of b on the view Sub("a") returned, the predicate hiding a/b
C12_Witness ==
    /\ last.op = "ReadFile"
    /\ last.n = PathB
    /\ last.m = NewMaskFS(TheMapFS, FilterExact(PathAB))
    /\ last.v = MaskFS(SubdirFS(PathA), PathA, FilterExact(PathAB))
    /\ last.res = [err |-> ErrMaskedPerm]
    /\ MapView_ReadFile(last.v.fsys[1], Fsys, recs, last.n).err = Nil

\* ------------------------------------------------------------------------
\* Writing through the decorator
\* ------------------------------------------------------------------------

\* ".git/b", a name below the hidden directory that is not stored
PathGitB == DotGit \o <<Slash, "b">>

\* the names and flag words clients open through the decorator with
MaskOpenNames == {PathB, DotGit, PathGitB, PathL, PathBad}

MaskOpenFlags == {ORead, OCreate, OCreateTrunc}

\* the names clients write whole files to through the decorator
MaskWriteNames == {PathB, PathGitB}

\* the predicates of the decorators clients write through
MaskOpenFilters == {FilterSeg(DotGit), FilterNoLinks, FilterFail}

InitMaskOpen ==
    /\ Fsys = SeedF(MaskTable)
    /\ recs = SeedR(MaskTable)
    /\ files = <<>>
    /\ now = 1
    /\ \E base \in MaskBases, filter \in MaskOpenFilters :
          mask = Some(NewMaskFS(base, filter))
    /\ last = [op |-> "NewMaskFS", m |-> mask[1]]

\* OpenFile on the decorator; the client lets go of the handle it may get
\* without writing through it or closing it
MaskOpenFile(name, flag, mode) ==
    /\ mask # None
    /\ \E o \in {maskFS_OpenFile(mask[1], Fsys, recs, name, flag, mode, now + 1)} :
          /\ now + o.ticks <= MaxTime
          /\ Fsys' = o.F
          /\ recs' = Live(o.F, o.R, files)
          /\ now' = now + o.ticks
          /\ last' = [op |-> "OpenFile", v |-> mask[1], n |-> name, flag |-> flag,
                      mode |-> mode, res |-> [err |-> o.err, file |-> o.file],
                      m |-> last.m]
    /\ UNCHANGED <<files, mask>>

\* kfs.WriteFile on the decorator
MaskWriteFile(name, data) ==
    /\ mask # None
    /\ \E w \in {maskWriteFile(mask[1], Fsys, recs, name, data, ModeFile, now)} :
          /\ w.now <= MaxTime
          /\ Fsys' = w.F
          /\ recs' = Live(w.F, w.R, files)
          /\ now' = w.now
          /\ last' = [op |-> "WriteFile", v |-> mask[1], n |-> name, data |-> data,
                      res |-> [err |-> w.err], m |-> last.m]
    /\ UNCHANGED <<files, mask>>

NextMaskOpen ==
    \/ \E name \in MaskOpenNames, flag \in MaskOpenFlags, mode \in OpenModes :
          MaskOpenFile(name, flag, mode)
    \/ \E name \in MaskWriteNames, b \in WriteBytes : MaskWriteFile(name, <<b>>)
    \/ \E name \in {PathA, DotStr} : MaskSub(name)

SpecMaskOpen == InitMaskOpen /\ [][NextMaskOpen]_vars

\* the wrapped filesystem has an entry at name
WrappedHas(v, name) == MapView_Stat(v.fsys[1], Fsys, recs, name).err = Nil

\* the predicate's verdict on the wrapped entry at name
StatVerdict(v, name) ==
    FilterEval(v.filter, Join(v.dir, name),
               FileInfoToDirEntry(MapView_Stat(v.fsys[1], Fsys, recs, name)))

\* the step is the call of the wrapped OpenFile and nothing else: its
\* result is returned and its effect on the path table and the clock is
\* the step's
Delegated(v, name, flag, mode) ==
    LET o == MapView_OpenFile(v.fsys[1], Fsys, recs, name, flag, mode, now + 1)
    IN /\ last'.res = [err |-> o.err, file |-> o.file]
       /\ Table(Fsys', recs') = Table(o.F, o.R)
       /\ now' = now + o.ticks

CapTable ==
    [k \in {PathAB, PathL} |->
        IF k = PathL THEN MapFile(PathAB, ModeSymlink, 1)
        ELSE MapFile(<<"x">>, ModeFile, 1)]

CapViews ==
    { PlainFS(<<>>), TheMapFS, SubdirFS(PathA),
      NewReadOnlyFS(TheMapFS), NewReadOnlyFS(SubdirFS(PathA)),
      NewReadOnlyFS(NewMaskFS(TheMapFS, FilterNoLinks)) }

CapNames == {PathAB, PathB, PathL, PathBad}

CapReads == {"Open", "Stat", "ReadFile", "ReadDir"}

\* the read calls: each of them with each name, Glob("*"), and Stat and
\* Open of "."
CapReadCalls ==
    (CapReads \X CapNames)
        \cup {<<"Glob", <<Star>>>>, <<"Stat", DotStr>>, <<"Open", DotStr>>}

CapFlags == {ORead, OCreateTrunc}

CapTimes == {2}

\* a read operation called on any value
fsCall(op, v, F, R, name) ==
    IF v.kind = KReadOnlyFS THEN readOnlyFS_Read(op, v, F, R, name)
    ELSE fsRead(op, v, F, R, name)

\* fs.Sub(fsys, dir) on any value
fs_Sub(v, F, R, dir) ==
    IF v.kind # KReadOnlyFS THEN fsSubOf(v, F, R, dir)
    ELSE IF ~ValidPath(dir) THEN [err |-> ErrInvalid, fs |-> None]
    ELSE IF dir = DotStr THEN [err |-> Nil, fs |-> Some(v)]
    ELSE readOnlyFS_Sub(v, F, R, dir)

InitCap ==
    /\ Fsys = SeedF(CapTable)
    /\ recs = SeedR(CapTable)
    /\ files = <<>>
    /\ now = 1
    /\ \E v \in CapViews : mask = Some(v)
    /\ last = [op |-> "New", m |-> mask[1]]

\* a call that changes nothing: m is the value the client began with
CapCall(op, name, res) ==
    /\ last' = [op |-> op, v |-> mask[1], n |-> name, res |-> res, m |-> last.m]
    /\ UNCHANGED <<Fsys, recs, files, now, mask>>

\* Open, Stat, ReadFile or ReadDir of a name, or Glob of a pattern
CapRead(op, name) == CapCall(op, name, fsCall(op, mask[1], Fsys, recs, name))

CapLstat(name) == CapCall("Lstat", name, kfs_Lstat(mask[1], Fsys, recs, name))

CapReadLink(name) == CapCall("ReadLink", name, kfs_ReadLink(mask[1], Fsys, recs, name))

\* kfs.OpenFile; the client lets go of the handle it may get
CapOpenFile(name, flag, mode) ==
    /\ \E o \in {kfs_OpenFile(mask[1], Fsys, recs, name, flag, mode, now + 1)} :
          /\ now + o.ticks <= MaxTime
          /\ Fsys' = o.F
          /\ recs' = Live(o.F, o.R, files)
          /\ now' = now + o.ticks
          /\ last' = [op |-> "OpenFile", v |-> mask[1], n |-> name, flag |-> flag,
                      mode |-> mode, m |-> last.m,
                      res |-> [k \in DOMAIN o \ {"F", "R", "ticks"} |-> o[k]]]
    /\ UNCHANGED <<files, mask>>

\* kfs.Remove
CapRemove(name) ==
    /\ \E r \in {kfs_Remove(mask[1], Fsys, name)} :
          /\ Fsys' = r.F
          /\ recs' = Live(r.F, recs, files)
          /\ last' = [op |-> "Remove", v |-> mask[1], n |-> name, m |-> last.m,
                      res |-> [k \in DOMAIN r \ {"F"} |-> r[k]]]
    /\ UNCHANGED <<files, now, mask>>

\* kfs.RemoveAll
CapRemoveAll(name) ==
    /\ \E r \in {kfs_RemoveAll(mask[1], Fsys, name)} :
          /\ Fsys' = r.F
          /\ recs' = Live(r.F, recs, files)
          /\ last' = [op |-> "RemoveAll", v |-> mask[1], n |-> name, m |-> last.m,
                      res |-> [k \in DOMAIN r \ {"F"} |-> r[k]]]
    /\ UNCHANGED <<files, now, mask>>

\* Chtimes on a value that declares it
CapChtimes(name, mtime) ==
    /\ mask[1].kind # KPlainFS
    /\ \E r \in {Chtimes(mask[1], Fsys, recs, name, mtime)} :
          /\ recs' = r.R
          /\ last' = [op |-> "Chtimes", v |-> mask[1], n |-> name, mtime |-> mtime,
                      m |-> last.m, res |-> [err |-> r.err]]
    /\ UNCHANGED <<Fsys, files, now, mask>>

\* the directory of the map that a value shows
CapDir(v) ==
    LET w == IF v.kind = KReadOnlyFS THEN v.fsys[1] ELSE v
    IN IF w.kind = KMaskFS THEN w.fsys[1].dir ELSE w.dir

\* fs.Sub into "." or a directory with stored paths beneath it; the client
\* goes on with the view
CapSub(dir) ==
    /\ \/ dir = DotStr
       \/ \E k \in DOMAIN Fsys :
             HasPrefix(k, Join(CapDir(mask[1]), dir) \o <<Slash>>)
    /\ \E res \in {fs_Sub(mask[1], Fsys, recs, dir)} :
          /\ last' = [op |-> "Sub", v |-> mask[1], n |-> dir, res |-> res, m |-> last.m]
          /\ mask' = IF res.err = Nil THEN res.fs ELSE mask
    /\ UNCHANGED <<Fsys, recs, files, now>>

\* the map written directly, not through the value the client holds
CapDirect(name, data) ==
    /\ \E w \in {WriteFile(TheMapFS, Fsys, recs, name, data, ModeFile, now)} :
          /\ w.now <= MaxTime
          /\ Fsys' = w.F
          /\ recs' = Live(w.F, w.R, files)
          /\ now' = w.now
          /\ last' = [op |-> "Direct", v |-> TheMapFS, n |-> name, data |-> data,
                      res |-> [err |-> w.err], m |-> last.m]
    /\ UNCHANGED <<files, mask>>

NextCap ==
    \/ \E c \in CapReadCalls : CapRead(c[1], c[2])
    \/ \E name \in CapNames : CapLstat(name)
    \/ \E name \in CapNames : CapReadLink(name)
    \/ \E name \in CapNames, flag \in CapFlags, mode \in OpenModes :
          CapOpenFile(name, flag, mode)
    \/ \E name \in CapNames : CapRemove(name)
    \/ \E name \in CapNames : CapRemoveAll(name)
    \/ \E name \in CapNames, mtime \in CapTimes : CapChtimes(name, mtime)
    \/ \E dir \in {PathA, DotStr} : CapSub(dir)
    \/ \E b \in WriteBytes : CapDirect(PathAB, <<b>>)

SpecCap == InitCap /\ [][NextCap]_vars

\* C14: a step that is OpenFile, Remove, RemoveAll or Chtimes through a
\* read-only decorator, or through any view reached from one by Sub, fails
\* with ReadOnly, hands out no handle, and leaves the map's keys, records
\* and clock as they were
C14_ReadOnlyRefuses ==
    [][(last'.op \in {"OpenFile", "Remove", "RemoveAll", "Chtimes"}
          /\ last'.m.kind = KReadOnlyFS)
       => /\ ErrIs(last'.res.err, ErrReadOnly)
          /\ (last'.op = "OpenFile" => last'.res.file = None)
          /\ Fsys' = Fsys /\ recs' = recs /\ now' = now]_vars

\* Remove of the stored file a/b, called as "b" on the Sub view below "a"
\* of a read-only decorator around the map, is refused and a/b stays
C14_Witness ==
    /\ last.op = "Remove"
    /\ last.m = NewReadOnlyFS(TheMapFS)
    /\ last.v = ReadOnlyFS(SubdirFS(PathA))
    /\ last.n = PathB
    /\ ErrIs(last.res.err, ErrReadOnly)
    /\ PathAB \in DOMAIN Fsys

CapReadOps == {"Open", "Stat", "ReadDir", "ReadFile", "Glob", "Lstat", "ReadLink"}

\* what the operation returns on the value a read-only decorator wraps, now
OnWrapped(op, v, name) ==
    IF op = "Glob"
    THEN IF v.fsys[1].kind = KMaskFS THEN maskFS_Glob(v.fsys[1], Fsys, recs, name)
         ELSE MapView_Glob(v.fsys[1], Fsys, recs, name)
    ELSE IF v.fsys[1].kind = KMaskFS THEN MaskOp(op, v.fsys[1], name)
    ELSE Wrapped(op, v, name)

\* C15: the result of the last Open, Stat, ReadDir, ReadFile, Glob, Lstat or
\* ReadLink on a read-only decorator is the result of the same operation on
\* the value it wraps, whatever has been written to the map directly
C15_ReadOnlyReads ==
    (last.op \in CapReadOps /\ last.v.kind = KReadOnlyFS)
        => last.res = OnWrapped(last.op, last.v, last.n)

\* ReadFile of a/b through a read-only decorator around the map returns the
\* byte written to the map directly after the decorator was made
C15_Witness ==
    /\ last.op = "ReadFile"
    /\ last.v = NewReadOnlyFS(TheMapFS)
    /\ last.m = last.v
    /\ last.n = PathAB
    /\ last.res.err = Nil
    /\ last.res.Data \in { <<b>> : b \in WriteBytes }
    /\ CapTable[PathAB].Data \notin { <<b>> : b \in WriteBytes }

\* the operation names the helpers put in their own errors
HelperOps == [Lstat |-> "lstat", ReadLink |-> "readlink", OpenFile |-> "openfile",
              Remove |-> "remove", RemoveAll |-> "removeall"]

\* the Lstat or ReadLink method of a value that declares it
OwnRead(op, v, name) ==
    CASE v.kind = KReadOnlyFS -> OnWrapped(op, v, name)
      [] v.kind = KMapFS /\ op = "Lstat" -> MapFS_Lstat(Fsys, recs, name)
      [] v.kind = KMapFS /\ op = "ReadLink" -> MapFS_ReadLink(Fsys, recs, name)
      [] v.kind = KSubdirFS /\ op = "Lstat" -> subdirFS_Lstat(v.dir, Fsys, recs, name)
      [] v.kind = KSubdirFS /\ op = "ReadLink" -> subdirFS_ReadLink(v.dir, Fsys, recs, name)

\* the OpenFile method of a value that declares it
OwnOpenFile(v, name, flag, mode) ==
    CASE v.kind = KReadOnlyFS -> OpenFail(ErrReadOnlyInvalid, Fsys, recs, 0)
      [] v.kind = KMapFS -> MapFS_OpenFile(Fsys, recs, name, flag, mode, now + 1)
      [] v.kind = KSubdirFS ->
            subdirFS_OpenFile(v.dir, Fsys, recs, name, flag, mode, now + 1)

\* the Remove or RemoveAll method of a value that declares it
OwnRemove(op, v, name) ==
    CASE v.kind = KReadOnlyFS -> [err |-> ErrReadOnlyInvalid, F |-> Fsys]
      [] v.kind = KMapFS /\ op = "Remove" -> MapFS_Remove(Fsys, name)
      [] v.kind = KMapFS /\ op = "RemoveAll" -> MapFS_RemoveAll(Fsys, name)
      [] v.kind = KSubdirFS /\ op = "Remove" -> subdirFS_Remove(v.dir, Fsys, name)
      [] v.kind = KSubdirFS /\ op = "RemoveAll" -> subdirFS_RemoveAll(v.dir, Fsys, name)

\* C16: a step of a dispatch helper on a value without the capability (a
\* plain fstest.MapFS or fs.Sub's view of one) returns NotImplemented with
\* the operation name and the path and changes nothing; on a value with the
\* capability it returns the result of the value's own method and changes
\* the map and the clock exactly as that method does
C16_Helpers ==
    [][last'.op \in DOMAIN HelperOps =>
         IF last'.v.kind = KPlainFS
         THEN /\ last'.res.err = ErrNotImplemented
              /\ last'.res.op = HelperOps[last'.op]
              /\ last'.res.path = last'.n
              /\ (last'.op = "OpenFile" => last'.res.file = None)
              /\ Fsys' = Fsys /\ recs' = recs /\ now' = now
         ELSE CASE last'.op \in {"Lstat", "ReadLink"} ->
                     /\ last'.res = OwnRead(last'.op, last'.v, last'.n)
                     /\ Fsys' = Fsys /\ recs' = recs /\ now' = now
                [] last'.op = "OpenFile" ->
                     LET o == OwnOpenFile(last'.v, last'.n, last'.flag, last'.mode)
                     IN /\ last'.res = [err |-> o.err, file |-> o.file]
                        /\ Fsys' = o.F
                        /\ recs' = Live(o.F, o.R, files)
                        /\ now' = now + o.ticks
                [] OTHER ->
                     LET r == OwnRemove(last'.op, last'.v, last'.n)
                     IN /\ last'.res = [err |-> r.err]
                        /\ Fsys' = r.F
                        /\ recs' = Live(r.F, recs, files)
                        /\ now' = now]_vars

\* kfs.OpenFile with O_CREATE|O_TRUNC of the stored a/b on a plain
\* fstest.MapFS returns NotImplemented for "openfile" and a/b, and a/b keeps
\* its content
C16_Witness ==
    /\ last.op = "OpenFile"
    /\ last.v = PlainFS(<<>>)
    /\ last.n = PathAB
    /\ last.flag = OCreateTrunc
    /\ last.res.err = ErrNotImplemented
    /\ last.res.op = "openfile"
    /\ last.res.path = PathAB
    /\ PathAB \in DOMAIN Fsys
    /\ recs[Fsys[PathAB]].Data = CapTable[PathAB].Data

\* the operations that take a path
CapPathOps ==
    CapReads \cup {"Lstat", "ReadLink", "OpenFile", "Remove", "RemoveAll", "Chtimes"}

\* C17: the last path-taking operation on the in-memory backend, a Sub view
\* of it or a read-only decorator, called with a name that is no canonical
\* path, failed with InvalidPath
C17_InvalidFirst ==
    (last.op \in CapPathOps /\ last.v.kind # KPlainFS /\ ~ValidPath(last.n))
        => ErrIs(last.res.err, ErrInvalid)

\* Stat of "/a" on the in-memory backend fails with NotExist
C17_Witness ==
    /\ last.op = "Stat"
    /\ last.v = TheMapFS
    /\ last.n = PathBad
    /\ ~ValidPath(last.n)
    /\ last.res.err = ErrNotExist

\* ------------------------------------------------------------------------
\* Removal: clients of the in-memory backend and of its Sub view below "a"
\* remove paths and subtrees, write files and directory records, and stat
\* ------------------------------------------------------------------------

PathAC == <<"a", Slash, "c">>

PathAx == <<"a", "x">>

\* the files a/b and a/c, a file below a file (a/b/c), and the sibling "ax"
RemTable ==
    [k \in {PathAB, PathAB \o <<Slash, "c">>, PathAC, PathAx} |->
        MapFile(<<"x">>, ModeFile, 1)]

RemCalls ==
    { <<TheMapFS, n>> : n \in {DotStr, PathA, PathAB, PathAC, PathAx, PathBad} }
        \cup { <<SubdirFS(PathA), n>> : n \in {DotStr, PathB, PathBad} }

\* the names written, and the modes they are written with
RemWrites == {PathA, PathAB}

RemModes == {ModeFile, ModeDir}

InitRemove ==
    /\ Fsys = SeedF(RemTable)
    /\ recs = SeedR(RemTable)
    /\ files = <<>>
    /\ now = 1
    /\ mask = None
    /\ last = NoCall

\* kfs.Remove on a view
RemRemove(v, name) ==
    /\ \E r \in {kfs_Remove(v, Fsys, name)} :
          /\ Fsys' = r.F
          /\ recs' = Live(r.F, recs, files)
          /\ last' = [op |-> "Remove", v |-> v, n |-> name, res |-> [err |-> r.err]]
    /\ UNCHANGED <<files, now, mask>>

\* kfs.RemoveAll on a view
RemRemoveAll(v, name) ==
    /\ \E r \in {kfs_RemoveAll(v, Fsys, name)} :
          /\ Fsys' = r.F
          /\ recs' = Live(r.F, recs, files)
          /\ last' = [op |-> "RemoveAll", v |-> v, n |-> name, res |-> [err |-> r.err]]
    /\ UNCHANGED <<files, now, mask>>

\* kfs.WriteFile on the backend with the mode the caller gives
RemWriteFile(name, data, perm) ==
    /\ \E w \in {WriteFile(TheMapFS, Fsys, recs, name, data, perm, now)} :
          /\ w.now <= MaxTime
          /\ Fsys' = w.F
          /\ recs' = Live(w.F, w.R, files)
          /\ now' = w.now
          /\ last' = [op |-> "WriteFile", v |-> TheMapFS, n |-> name, perm |-> perm,
                      res |-> [err |-> w.err]]
    /\ UNCHANGED <<files, mask>>

\* fs.Stat on a view
RemStat(v, name) ==
    /\ last' = [op |-> "Stat", v |-> v, n |-> name,
                res |-> MapView_Stat(v, Fsys, recs, name)]
    /\ UNCHANGED <<Fsys, recs, files, now, mask>>

\* fs.ReadDir on a view
RemReadDir(v, name) ==
    /\ last' = [op |-> "ReadDir", v |-> v, n |-> name,
                res |-> MapView_ReadDir(v, Fsys, recs, name)]
    /\ UNCHANGED <<Fsys, recs, files, now, mask>>

NextRemove ==
    \/ \E c \in RemCalls : RemReadDir(c[1], c[2])
    \/ \E c \in RemCalls : RemRemove(c[1], c[2])
    \/ \E c \in RemCalls : RemRemoveAll(c[1], c[2])
    \/ \E name \in RemWrites, perm \in RemModes : RemWriteFile(name, <<>>, perm)
    \/ \E c \in RemCalls : RemStat(c[1], c[2])

SpecRemove == InitRemove /\ [][NextRemove]_vars

\* the stored key a view means by a name
FullOf(v, name) == IF v.kind = KMapFS THEN name ELSE Join(v.dir, name)

\* the stored paths that are the full name or begin with it and "/"
Beneath(F, full) == { k \in DOMAIN F : k = full \/ HasPrefix(k, full \o <<Slash>>) }

\* the step keeps every key outside gone, with its record as it was
KeepsOthers(gone) ==
    /\ DOMAIN Fsys' = DOMAIN Fsys \ gone
    /\ \A k \in DOMAIN Fsys' : recs'[Fsys'[k]] = recs[Fsys[k]]
    /\ \A k \in DOMAIN Fsys' :
          MapReadFile(Fsys', recs', k) = MapReadFile(Fsys, recs, k)

\* after the step, Stat of the name and of every child of it that was
\* stored, or that "c" names, fails with NotExist on the view
StatGone(v, name) ==
    /\ MapView_Stat(v, Fsys', recs', name).err = ErrNotExist
    /\ \A k \in Beneath(Fsys, FullOf(v, name)) \cup {FullOf(v, Join(name, PathC))} :
          MapStat(Fsys', recs', k).err = ErrNotExist

\* C18 as stated: RemoveAll of a canonical name returns no error, deletes
\* exactly the keys that are the name or begin with name + "/", keeps every
\* other key and its content, and afterwards Stat of the name and of its
\* children fails with NotExist
C18_AsStated ==
    [][(last'.op = "RemoveAll" /\ ValidPath(last'.n))
       => /\ last'.res.err = Nil
          /\ KeepsOthers(Beneath(Fsys, FullOf(last'.v, last'.n)))
          /\ StatGone(last'.v, last'.n)]_vars

\* C18 amended: the same, except that after RemoveAll(".") on the backend
\* itself, which deletes nothing, Stat(".") still succeeds
C18_Amended ==
    [][(last'.op = "RemoveAll" /\ ValidPath(last'.n))
       => /\ last'.res.err = Nil
          /\ KeepsOthers(Beneath(Fsys, FullOf(last'.v, last'.n)))
          /\ IF FullOf(last'.v, last'.n) = DotStr
             THEN MapView_Stat(last'.v, Fsys', recs', last'.n).err = Nil
             ELSE StatGone(last'.v, last'.n)]_vars

\* RemoveAll("a") on the backend has deleted a/b, a/b/c and a/c and left the
\* sibling "ax" with its content
C18_Witness ==
    /\ last.op = "RemoveAll"
    /\ last.v = TheMapFS
    /\ last.n = PathA
    /\ last.res.err = Nil
    /\ DOMAIN Fsys = {PathAx}
    /\ MapReadFile(Fsys, recs, PathAx) = [err |-> Nil, Data |-> RemTable[PathAx].Data]
    /\ MapStat(Fsys, recs, PathA).err = ErrNotExist

\* C19: Remove of a canonical name at which no record is stored fails with
\* NotExist and leaves keys and records as they were; otherwise it returns
\* no error, deletes that one key, and keeps every other key and its content
C19_Remove ==
    [][(last'.op = "Remove" /\ ValidPath(last'.n))
       => IF FullOf(last'.v, last'.n) \notin DOMAIN Fsys
          THEN /\ last'.res.err = ErrNotExist
               /\ Fsys' = Fsys /\ recs' = recs
          ELSE /\ last'.res.err = Nil
               /\ KeepsOthers({FullOf(last'.v, last'.n)})]_vars

\* Remove("a/b") on the backend has deleted a/b alone: a/c in the same
\* directory is readable and a/b/c is still stored
C19_Witness ==
    /\ last.op = "Remove"
    /\ last.v = TheMapFS
    /\ last.n = PathAB
    /\ last.res.err = Nil
    /\ PathAB \notin DOMAIN Fsys
    /\ PathAB \o <<Slash, "c">> \in DOMAIN Fsys
    /\ MapReadFile(Fsys, recs, PathAC) = [err |-> Nil, Data |-> RemTable[PathAC].Data]

\* the non-root paths asked about
RemDirs == {PathA, PathAB, PathAB \o <<Slash, "c">>, PathAC, PathAx, PathB}

\* some stored key begins with d and "/"
HasBeneath(F, d) == \E k \in DOMAIN F : HasPrefix(k, d \o <<Slash>>)

\* Stat of d succeeds exactly when d is a stored key or has a key beneath it
StatIffStored ==
    \A d \in RemDirs :
        MapStat(Fsys, recs, d).err = Nil <=> (d \in DOMAIN Fsys \/ HasBeneath(Fsys, d))

\* d exists, is a directory, and lists nothing
EmptyDir(d) ==
    /\ MapStat(Fsys, recs, d).err = Nil
    /\ MapStat(Fsys, recs, d).IsDir
    /\ MapReadDir(Fsys, recs, d) = [err |-> Nil, Entries |-> <<>>]

\* the step is a removal that took the last stored path beneath d
TookLast(d) ==
    /\ last'.op \in {"Remove", "RemoveAll"}
    /\ HasBeneath(Fsys, d)
    /\ ~HasBeneath(Fsys', d)

\* C20 as stated: a non-root path exists exactly when it is a stored key or
\* a key lies beneath it, removing the last stored path beneath it makes
\* its Stat fail with NotExist, and no existing directory is empty
C20_AsStated ==
    /\ [](StatIffStored /\ \A d \in RemDirs : ~EmptyDir(d))
    /\ [][\A d \in RemDirs :
            TookLast(d) => MapStat(Fsys', recs', d).err = ErrNotExist]_vars

\* C20 amended: a non-root path exists exactly when it is a stored key or a
\* key lies beneath it; removing the last stored path beneath it makes its
\* Stat fail with NotExist unless it is itself a stored key; and an
\* existing empty directory is a stored key whose record has directory mode
C20_Amended ==
    /\ [](/\ StatIffStored
          /\ \A d \in RemDirs :
                EmptyDir(d) => (d \in DOMAIN Fsys /\ recs[Fsys[d]].Mode = ModeDir))
    /\ [][\A d \in RemDirs :
            (TookLast(d) /\ d \notin DOMAIN Fsys')
                => MapStat(Fsys', recs', d).err = ErrNotExist]_vars

\* Remove of a/c has taken the last stored path beneath "a", which is no
\* key, and Stat("a") fails with NotExist
C20_Witness ==
    /\ last.op = "Remove"
    /\ last.v = TheMapFS
    /\ last.n = PathAC
    /\ last.res.err = Nil
    /\ PathA \notin DOMAIN Fsys
    /\ ~HasBeneath(Fsys, PathA)
    /\ MapStat(Fsys, recs, PathA).err = ErrNotExist

\* ------------------------------------------------------------------------
\* Sub views nested in each other: a client starts with the MapFS, takes
\* Sub views of what it holds, and calls the view at names; chain is the
\* sequence of directories it went down, kept beside the view
\* ------------------------------------------------------------------------

PathABC == <<"a", Slash, "b", Slash, "c">>

\* a file at a/b/c and a symlink a/b/l to its sibling c
SubTable ==
    [k \in {PathABC, PathABL} |->
        IF k = PathABL THEN MapFile(PathC, ModeSymlink, 1)
        ELSE MapFile(<<"x">>, ModeFile, 1)]

OWrite == Flag(OWrOnly, FALSE, FALSE, FALSE, FALSE)

OWriteTrunc == Flag(OWrOnly, FALSE, FALSE, TRUE, FALSE)

\* the flag words the client of the views opens with
SubFlags == {ORead, OWriteTrunc}

SubDirs == {PathA, PathB, DotStr}

SubNames == {PathC, PathL, PathABC}

\* the mtime arguments of Chtimes: the zero time.Time and a time
SubTimes == {ZeroTime, 2}

\* the deepest nesting of Sub calls
MaxChain == 2

InitSub ==
    /\ Fsys = SeedF(SubTable)
    /\ recs = SeedR(SubTable)
    /\ files = <<>>
    /\ now = 1
    /\ mask = Some(TheMapFS)
    /\ last = [op |-> "New", chain |-> <<>>]

\* Sub(dir) on the view held; the client goes on with the new view
SubSub(dir) ==
    /\ Len(last.chain) < MaxChain
    /\ \E res \in {MapFS_Sub(mask[1], dir)} :
          /\ res.err = Nil
          /\ mask' = res.fs
          /\ last' = [op |-> "Sub", n |-> dir, chain |-> Append(last.chain, dir)]
    /\ UNCHANGED <<Fsys, recs, files, now>>

\* a call of the view that changes nothing
SubCall(op, name, res) ==
    /\ last' = [op |-> op, n |-> name, res |-> res, chain |-> last.chain]
    /\ UNCHANGED <<Fsys, recs, files, now, mask>>

SubLstat(name) == SubCall("Lstat", name, MapView_Lstat(mask[1], Fsys, recs, name))

SubReadLink(name) ==
    SubCall("ReadLink", name, MapView_ReadLink(mask[1], Fsys, recs, name))

SubReadFile(name) ==
    SubCall("ReadFile", name, MapView_ReadFile(mask[1], Fsys, recs, name))

\* OpenFile on the view; the client lets go of the handle it may get
SubOpenFile(name, flag, mode) ==
    /\ \E o \in {MapView_OpenFile(mask[1], Fsys, recs, name, flag, mode, now + 1)} :
          /\ now + o.ticks <= MaxTime
          /\ Fsys' = o.F
          /\ recs' = Live(o.F, o.R, files)
          /\ now' = now + o.ticks
          /\ last' = [op |-> "OpenFile", n |-> name, flag |-> flag, mode |-> mode,
                      at |-> now + 1, chain |-> last.chain,
                      res |-> [k \in DOMAIN o \ {"F", "R", "ticks"} |-> o[k]]]
    /\ UNCHANGED <<files, mask>>

SubRemove(name) ==
    /\ \E r \in {kfs_Remove(mask[1], Fsys, name)} :
          /\ Fsys' = r.F
          /\ recs' = Live(r.F, recs, files)
          /\ last' = [op |-> "Remove", n |-> name, chain |-> last.chain,
                      res |-> [err |-> r.err]]
    /\ UNCHANGED <<files, now, mask>>

SubRemoveAll(name) ==
    /\ \E r \in {kfs_RemoveAll(mask[1], Fsys, name)} :
          /\ Fsys' = r.F
          /\ recs' = Live(r.F, recs, files)
          /\ last' = [op |-> "RemoveAll", n |-> name, chain |-> last.chain,
                      res |-> [err |-> r.err]]
    /\ UNCHANGED <<files, now, mask>>

SubChtimes(name, mtime) ==
    /\ \E r \in {Chtimes(mask[1], Fsys, recs, name, mtime)} :
          /\ recs' = r.R
          /\ last' = [op |-> "Chtimes", n |-> name, mtime |-> mtime,
                      chain |-> last.chain, res |-> [err |-> r.err]]
    /\ UNCHANGED <<Fsys, files, now, mask>>

NextSub ==
    \/ \E dir \in SubDirs : SubSub(dir)
    \/ \E name \in SubNames : SubLstat(name)
    \/ \E name \in SubNames : SubReadLink(name)
    \/ \E name \in SubNames : SubReadFile(name)
    \/ \E name \in SubNames, flag \in SubFlags : SubOpenFile(name, flag, ModeFile)
    \/ \E name \in SubNames : SubRemove(name)
    \/ \E name \in SubNames : SubRemoveAll(name)
    \/ \E name \in SubNames \cup {PathA}, mtime \in SubTimes : SubChtimes(name, mtime)

SpecSub == InitSub /\ [][NextSub]_vars

\* join(d1, join(d2, ... join(dk, name))): where a name of the innermost
\* view lies below the root
RECURSIVE RootName(_, _)
RootName(chain, name) ==
    IF chain = <<>> THEN name ELSE Join(Head(chain), RootName(Tail(chain), name))

\* the result and the table that operation op at full on the root would
\* leave, from the table before the step
OnRoot(call, full) ==
    CASE call.op = "Lstat" ->
            [res |-> MapFS_Lstat(Fsys, recs, full), F |-> Fsys, R |-> recs]
      [] call.op = "ReadLink" ->
            [res |-> MapFS_ReadLink(Fsys, recs, full), F |-> Fsys, R |-> recs]
      [] call.op = "ReadFile" ->
            [res |-> MapReadFile(Fsys, recs, full), F |-> Fsys, R |-> recs]
      [] call.op = "OpenFile" ->
            LET cut(o) == [res |-> [k \in DOMAIN o \ {"F", "R", "ticks"} |-> o[k]],
                           F |-> o.F, R |-> Live(o.F, o.R, files)]
            IN cut(MapFS_OpenFile(Fsys, recs, full, call.flag, call.mode, call.at))
      [] call.op = "Remove" ->
            LET cut(r) == [res |-> [err |-> r.err], F |-> r.F, R |-> Live(r.F, recs, files)]
            IN cut(MapFS_Remove(Fsys, full))
      [] call.op = "RemoveAll" ->
            LET cut(r) == [res |-> [err |-> r.err], F |-> r.F, R |-> Live(r.F, recs, files)]
            IN cut(MapFS_RemoveAll(Fsys, full))
      [] call.op = "Chtimes" ->
            LET cut(r) == [res |-> [err |-> r.err], F |-> Fsys, R |-> r.R]
            IN cut(MapFS_Chtimes(Fsys, recs, full, call.mtime))

\* C21: every OpenFile, Remove, RemoveAll, Chtimes, Lstat, ReadLink (and
\* ReadFile) step at a valid name on a view reached by nested Sub calls
\* returns what the same operation returns on the root at the name joined
\* below the directories the client went down, and leaves the one shared
\* table exactly as the root operation would; what a view reads is what the
\* shared table holds at that joined name
C21_SubIsRoot ==
    [][ (last'.op \notin {"New", "Sub"} /\ ValidPath(last'.n)) =>
            \E r \in {OnRoot(last', RootName(last'.chain, last'.n))} :
                /\ last'.res = r.res
                /\ Fsys' = r.F
                /\ recs' = r.R ]_vars

\* a view two Sub calls deep, through a and then b, removed a/b/c under the
\* name c it has there
C21_Witness ==
    /\ last.op = "Remove"
    /\ last.chain = <<PathA, PathB>>
    /\ last.n = PathC
    /\ last.res.err = Nil
    /\ PathABC \notin DOMAIN Fsys
    /\ PathABL \in DOMAIN Fsys

\* ------------------------------------------------------------------------
\* Handles beside the table: clients of the MapFS hold read and write
\* handles on the one path a/b while the path is read, removed, re-timed
\* and opened again
\* ------------------------------------------------------------------------

OReadTrunc == Flag(ORdOnly, FALSE, FALSE, TRUE, FALSE)

OCreateExcl == Flag(OWrOnly, TRUE, TRUE, FALSE, FALSE)

OCreateExclTrunc == Flag(OWrOnly, TRUE, TRUE, TRUE, FALSE)

HndFlags == {ORead, OWrite, OWriteTrunc, OReadTrunc, OCreateExcl, OCreateExclTrunc}

HndTable == [k \in {PathAB} |-> MapFile(<<"x">>, ModeFile, 1)]

InitHnd ==
    /\ Fsys = SeedF(HndTable)
    /\ recs = SeedR(HndTable)
    /\ files = <<>>
    /\ now = 1
    /\ mask = None
    /\ last = NoCall

\* OpenFile(a/b, flag) on the MapFS; a returned handle is kept with the
\* flag word, the content ReadFile showed at the path before the call
\* (seed) and the bytes the client has read through it so far (got)
HndOpenFile(flag) ==
    /\ Cardinality(DOMAIN files) < MaxFiles
    /\ \E o \in {MapView_OpenFile(TheMapFS, Fsys, recs, PathAB, flag, ModeFile, now + 1)},
          h \in {NewFile(files)} :
          /\ now + o.ticks <= MaxTime
          /\ Fsys' = o.F
          /\ now' = now + o.ticks
          /\ last' = [op |-> "OpenFile", err |-> o.err, flag |-> flag]
          /\ IF o.err # Nil
             THEN /\ files' = files
                  /\ recs' = Live(o.F, o.R, files)
             ELSE /\ files' = [k \in DOMAIN files \cup {h} |->
                                 IF k = h
                                 THEN [file |-> o.file[1], flag |-> flag,
                                       seed |-> ContentAt(TheMapFS, Fsys, recs, PathAB),
                                       got |-> <<>>]
                                 ELSE files[k]]
                  /\ recs' = Live(o.F, o.R, files')
    /\ UNCHANGED mask

\* Read of one byte through handle h
HndRead(h) ==
    /\ h \in DOMAIN files
    /\ Len(files[h].got) <= MaxLen
    /\ \E rd \in {mapFile_Read(files[h].file, 1)} :
          /\ files' = [files EXCEPT ![h].file = rd.file, ![h].got = @ \o rd.bytes]
          /\ last' = [op |-> "Read", h |-> h, err |-> rd.err, n |-> rd.n,
                      bytes |-> rd.bytes]
    /\ UNCHANGED <<Fsys, recs, now, mask>>

\* Write of bytes p through handle h
HndWrite(h, p) ==
    /\ h \in DOMAIN files
    /\ files[h].file.b # None => Len(files[h].file.b[1]) + Len(p) <= MaxLen
    /\ \E w \in {mapFile_Write(files[h].file, p)} :
          /\ files' = [files EXCEPT ![h].file = w.file]
          /\ last' = [op |-> "Write", h |-> h, err |-> w.err, n |-> w.n]
    /\ UNCHANGED <<Fsys, recs, now, mask>>

\* Close of handle h, which the client then lets go of; the call is kept
\* with whether the path had no record before it, the content the handle
\* was opened on and the buffer it held
HndClose(h) ==
    /\ h \in DOMAIN files
    /\ \E c \in {mapFile_Close(Fsys, recs, files[h].file, now + 1)} :
          /\ now + c.ticks <= MaxTime
          /\ Fsys' = c.F
          /\ files' = [k \in DOMAIN files \ {h} |-> files[k]]
          /\ recs' = Live(c.F, c.R, files')
          /\ now' = now + c.ticks
          /\ last' = [op |-> "Close", h |-> h, err |-> c.err,
                      gone |-> PathAB \notin DOMAIN Fsys, seed |-> files[h].seed,
                      b |-> files[h].file.b]
    /\ UNCHANGED mask

HndRemove ==
    /\ \E r \in {MapFS_Remove(Fsys, PathAB)} :
          /\ Fsys' = r.F
          /\ recs' = Live(r.F, recs, files)
          /\ last' = [op |-> "Remove", err |-> r.err]
    /\ UNCHANGED <<files, now, mask>>

HndRemoveAll ==
    /\ \E r \in {MapFS_RemoveAll(Fsys, PathAB)} :
          /\ Fsys' = r.F
          /\ recs' = Live(r.F, recs, files)
          /\ last' = [op |-> "RemoveAll", err |-> r.err]
    /\ UNCHANGED <<files, now, mask>>

HndChtimes(mtime) ==
    /\ \E r \in {MapFS_Chtimes(Fsys, recs, PathAB, mtime)} :
          /\ recs' = r.R
          /\ last' = [op |-> "Chtimes", err |-> r.err]
    /\ UNCHANGED <<Fsys, files, now, mask>>

\* ReadFile(a/b) and Stat(a/b) on the MapFS
HndReadFile ==
    /\ \E rf \in {MapReadFile(Fsys, recs, PathAB)}, st \in {MapStat(Fsys, recs, PathAB)} :
          last' = [op |-> "ReadFile", err |-> rf.err,
                   Data |-> IF rf.err = Nil THEN rf.Data ELSE <<>>, stat |-> st.err]
    /\ UNCHANGED <<Fsys, recs, files, now, mask>>

NextHnd ==
    \/ \E flag \in HndFlags : HndOpenFile(flag)
    \/ \E h \in 1..MaxFiles : HndRead(h)
    \/ \E h \in 1..MaxFiles, p \in { <<x>> : x \in WriteBytes } : HndWrite(h, p)
    \/ \E h \in 1..MaxFiles : HndClose(h)
    \/ HndRemove
    \/ HndRemoveAll
    \/ \E mtime \in CapTimes : HndChtimes(mtime)
    \/ HndReadFile

SpecHnd == InitHnd /\ [][NextHnd]_vars

\* the content the table holds at a/b, None when it holds no record there
HndStored(F, R) == IF PathAB \in DOMAIN F THEN Some(R[F[PathAB]].Data) ELSE None

\* C22: a Read through a handle that has a reader returns the next byte of
\* the content ReadFile showed at the path when the handle was opened, and
\* EOF exactly when the client has got all of it, whatever the table holds
\* at the path by then
C22_ReadSnapshot ==
    [][ (last'.op = "Read" /\ files[last'.h].file.r # None) =>
            \E f \in {files[last'.h]} :
                /\ last'.bytes = SubSeq(f.seed, Len(f.got) + 1,
                                        Min(Len(f.seed), Len(f.got) + 1))
                /\ (last'.err # Nil) = (Len(f.got) >= Len(f.seed))
                /\ files'[last'.h].seed = f.seed ]_vars

\* a Read returned the byte the record held at open time after a write
\* handle's Close stored other content at the path
C22_Witness ==
    /\ last.op = "Read"
    /\ last.bytes = <<"x">>
    /\ HndStored(Fsys, recs) = Some(<<"b">>)

\* C23: every handle held has a reader or a buffer, never both; a Write
\* through a handle without a buffer and a Read through a handle without a
\* reader fail with an Invalid error, transfer no byte and leave the
\* handles and the table as they were
C23_OneKind ==
    /\ [](\A h \in DOMAIN files : (files[h].file.r = None) # (files[h].file.b = None))
    /\ [][ /\ (last'.op = "Write" /\ files[last'.h].file.b = None) =>
                 /\ ErrIs(last'.err, ErrInvalid)
                 /\ last'.n = 0
                 /\ UNCHANGED <<files, Fsys, recs>>
           /\ (last'.op = "Read" /\ files[last'.h].file.r = None) =>
                 /\ ErrIs(last'.err, ErrInvalid)
                 /\ last'.n = 0
                 /\ UNCHANGED <<files, Fsys, recs>> ]_vars

\* a Read through a held write-only handle returned no byte and no error
C23_Witness ==
    /\ last.op = "Read"
    /\ last.h \in DOMAIN files
    /\ files[last.h].file.r = None
    /\ files[last.h].file.b # None
    /\ last.n = 0
    /\ last.err = Nil

\* C24: a Chtimes step at a valid name, on the root or a Sub view: when the
\* table holds a record at the joined name the call succeeds, the record's
\* modtime becomes mtime if mtime is not the zero time and stays as it was
\* if it is, a following Stat through the same view reports that modtime,
\* and the keys, every content and mode and every other record's modtime
\* stay as they were; when the table holds no record there the call fails
\* with NotExist and changes nothing
C24_Chtimes ==
    [][ (last'.op = "Chtimes" /\ ValidPath(last'.n)) =>
            \E full \in {RootName(last'.chain, last'.n)} :
                IF full \in DOMAIN Fsys
                THEN \E t \in {IF last'.mtime # ZeroTime THEN last'.mtime
                               ELSE recs[Fsys[full]].ModTime} :
                        /\ last'.res.err = Nil
                        /\ Fsys' = Fsys
                        /\ recs' = [recs EXCEPT ![Fsys[full]].ModTime = t]
                        /\ MapView_Stat(mask[1], Fsys', recs', last'.n).ModTime = t
                ELSE /\ ErrIs(last'.res.err, ErrNotExist)
                     /\ UNCHANGED <<Fsys, recs>> ]_vars

\* a view two Sub calls deep set the modtime of a/b/c, which was 1, to 2
\* under the name c
C24_Witness ==
    /\ last.op = "Chtimes"
    /\ last.chain = <<PathA, PathB>>
    /\ last.n = PathC
    /\ last.mtime = 2
    /\ last.res.err = Nil
    /\ PathABC \in DOMAIN Fsys
    /\ recs[Fsys[PathABC]].ModTime = 2
    /\ recs[Fsys[PathABL]].ModTime = 1

\* the names right below directory d among the stored keys: the element
\* after d's elements of every key that has d's elements first
ChildrenOf(F, d) ==
    LET de == IF d = DotStr THEN <<>> ELSE Elems(d)
    IN { Elems(k)[Len(de) + 1] :
           k \in { q \in DOMAIN F : /\ Len(Elems(q)) > Len(de)
                                     /\ SubSeq(Elems(q), 1, Len(de)) = de } }

\* C25: in every state, every ReadDir that succeeds, on the root or a Sub
\* view, lists names in strictly ascending lexical order (so none twice),
\* and the names listed are exactly the names right below the directory
\* among the stored keys: stored children and first elements of deeper keys
C25_ReadDir ==
    \A c \in RemCalls :
        LET listed(rd) ==
              rd.err = Nil =>
                  /\ \A i \in 1..(Len(rd.Entries) - 1) :
                        StrLess(rd.Entries[i].Name, rd.Entries[i + 1].Name)
                  /\ { rd.Entries[i].Name : i \in 1..Len(rd.Entries) }
                        = ChildrenOf(Fsys, FullOf(c[1], c[2]))
        IN listed(MapView_ReadDir(c[1], Fsys, recs, c[2]))

\* ReadDir(a) listed b and c, b being a stored file and the first element
\* of the stored key a/b/c at once
C25_Witness ==
    /\ last.op = "ReadDir"
    /\ last.v = TheMapFS
    /\ last.n = PathA
    /\ last.res.err = Nil
    /\ Len(last.res.Entries) = 2
    /\ last.res.Entries[1].Name = PathB
    /\ last.res.Entries[2].Name = PathC
    /\ {PathAB, PathAB \o <<Slash, "c">>, PathAC} \subseteq DOMAIN Fsys

\* the final element of a path
LastElem(p) == Elems(p)[Len(Elems(p))]

\* the name a successful Stat or Open reports, or the handle a successful
\* OpenFile returns reports from its Stat (mapFile.Stat gives the name the
\* handle was built with)
NameReported(call) ==
    IF call.op = "OpenFile" THEN call.res.file[1].name ELSE call.res.Name

\* the call is a Stat, Open or OpenFile of a valid name that succeeded
NamedCall(call) ==
    /\ call.op \in {"Stat", "Open", "OpenFile"}
    /\ ValidPath(call.n)
    /\ call.res.err = Nil

\* C26 as stated: the name reported by every successful Stat, Open or
\* OpenFile of a canonical path, on every value, is the final element of
\* the path
C26_AsStated == NamedCall(last) => NameReported(last) = LastElem(last.n)

\* C26 amended: the name reported is the final element of the path for
\* every path but "."; for "." it is "." on a value that shows the whole
\* map and the final element of the view's directory on a Sub view
C26_Amended ==
    NamedCall(last) =>
        NameReported(last) =
            LastElem(IF last.n = DotStr /\ CapDir(last.v) \notin {<<>>, DotStr}
                     THEN CapDir(last.v) ELSE last.n)

\* Stat(".") on the Sub view of a reported the name a
C26_Witness ==
    /\ last.op = "Stat"
    /\ last.n = DotStr
    /\ last.v = SubdirFS(PathA)
    /\ last.res.err = Nil
    /\ last.res.Name = PathA

\* C27: an OpenFile step that returns an error leaves the keys and every
\* record as they were, whatever the flag word holds
C27_FailedOpen ==
    [][ (last'.op = "OpenFile" /\ last'.err # Nil) => UNCHANGED <<Fsys, recs>> ]_vars

\* OpenFile with create, exclusive and truncate failed with Exist on the
\* record at a/b, whose content is still there
C27_Witness ==
    /\ last.op = "OpenFile"
    /\ last.flag = OCreateExclTrunc
    /\ last.err = ErrExist
    /\ HndStored(Fsys, recs) = Some(<<"x">>)

\* C28: no OpenFile step adds a key to the table, a key is added by a Close
\* step only, and an OpenFile step with create and exclusive succeeds
\* exactly when the table holds no record at the path at that moment,
\* whatever handles are held on it
C28_CreateAtClose ==
    [][ /\ last'.op = "OpenFile" => Fsys' = Fsys
        /\ ~(DOMAIN Fsys' \subseteq DOMAIN Fsys) => last'.op = "Close"
        /\ (last'.op = "OpenFile" /\ last'.flag = OCreateExcl) =>
              (last'.err = Nil) = (PathAB \notin DOMAIN Fsys) ]_vars

\* two handles opened with create and exclusive on a/b are held, the
\* second just opened, and the table has no record at a/b
C28_Witness ==
    /\ last.op = "OpenFile"
    /\ last.err = Nil
    /\ DOMAIN files = {1, 2}
    /\ \A h \in DOMAIN files : files[h].flag = OCreateExcl
    /\ PathAB \notin DOMAIN Fsys

\* C29: an OpenFile step for writing that succeeds on a stored record
\* leaves the stored content empty if the flag word has truncate and as it
\* was if not; Read, Write, ReadFile and Chtimes steps leave the stored
\* content as it is, so it stays what the open left until a Close; and
\* ReadFile returns the stored content
C29_TruncAtOpen ==
    [][ /\ (/\ last'.op = "OpenFile"
            /\ last'.err = Nil
            /\ IsWriteFlag(last'.flag)
            /\ PathAB \in DOMAIN Fsys) =>
              HndStored(Fsys', recs') =
                  IF last'.flag.trunc THEN Some(<<>>) ELSE HndStored(Fsys, recs)
        /\ last'.op \in {"Read", "Write", "ReadFile", "Chtimes"} =>
              HndStored(Fsys', recs') = HndStored(Fsys, recs)
        /\ last'.op = "ReadFile" =>
              IF PathAB \in DOMAIN Fsys
              THEN last'.err = Nil /\ Some(last'.Data) = HndStored(Fsys, recs)
              ELSE last'.err # Nil ]_vars

\* ReadFile returned empty content while a handle opened with truncate on
\* the content "x" is held with a written byte in its buffer, and no Close
\* has stored anything yet
C29_Witness ==
    /\ last.op = "ReadFile"
    /\ last.err = Nil
    /\ last.Data = <<>>
    /\ now = 1
    /\ \E h \in DOMAIN files :
          /\ files[h].flag = OWriteTrunc
          /\ files[h].seed = <<"x">>
          /\ files[h].file.b = Some(<<"b">>)

\* C30: after a Remove or RemoveAll step that succeeds Stat of the path
\* fails with NotExist; while the path has no record no step but a Close
\* gives it one, so Stat keeps failing; and a Close step of a handle with a
\* buffer leaves a record at the path that holds the buffer's bytes,
\* whether the path had a record before the Close or not, so Stat succeeds
C30_CloseRecreates ==
    [][ /\ (last'.op \in {"Remove", "RemoveAll"} /\ last'.err = Nil) =>
              MapStat(Fsys', recs', PathAB).err = ErrNotExist
        /\ (PathAB \notin DOMAIN Fsys /\ last'.op # "Close") =>
              MapStat(Fsys', recs', PathAB).err = ErrNotExist
        /\ (last'.op = "Close" /\ last'.b # None) =>
              /\ HndStored(Fsys', recs') = last'.b
              /\ MapStat(Fsys', recs', PathAB).err = Nil
              /\ MapStat(Fsys', recs', PathAB).Size = Len(last'.b[1]) ]_vars

\* a write handle opened on the content "x" was closed with the byte b in
\* its buffer after the record had been removed, and the path has a record
\* with that byte again; this Close is the only one so far
C30_Witness ==
    /\ last.op = "Close"
    /\ last.gone
    /\ last.seed = <<"x">>
    /\ last.b = Some(<<"b">>)
    /\ now = 2
    /\ HndStored(Fsys, recs) = Some(<<"b">>)
    /\ MapStat(Fsys, recs, PathAB).err = Nil

\* ------------------------------------------------------------------------
\* Handles kept after Close: clients of the MapFS go on calling Close and
\* Write on the write handles they have closed, while the path a/b is
\* written and removed beside them
\* ------------------------------------------------------------------------

\* most Close calls on one handle
MaxCloses == 2

ClFlags == {OWrite, OCreate}

InitCl ==
    /\ Fsys = SeedF(HndTable)
    /\ recs = SeedR(HndTable)
    /\ files = <<>>
    /\ now = 1
    /\ mask = None
    /\ last = NoCall

\* OpenFile(a/b, flag) for writing; the handle is kept for good, with the
\* number of Close calls made on it
ClOpenFile(flag) ==
    /\ Cardinality(DOMAIN files) < MaxFiles
    /\ \E o \in {MapView_OpenFile(TheMapFS, Fsys, recs, PathAB, flag, ModeFile, now + 1)},
          h \in {NewFile(files)} :
          /\ o.err = Nil
          /\ now + o.ticks <= MaxTime
          /\ Fsys' = o.F
          /\ now' = now + o.ticks
          /\ files' = [k \in DOMAIN files \cup {h} |->
                          IF k = h THEN [file |-> o.file[1], flag |-> flag, closes |-> 0]
                          ELSE files[k]]
          /\ recs' = Live(o.F, o.R, files')
          /\ last' = [op |-> "OpenFile", h |-> h, err |-> o.err]
    /\ UNCHANGED mask

\* Write of bytes p through handle h, closed or not
ClWrite(h, p) ==
    /\ h \in DOMAIN files
    /\ files[h].file.b # None => Len(files[h].file.b[1]) + Len(p) <= MaxLen
    /\ \E w \in {mapFile_Write(files[h].file, p)} :
          /\ files' = [files EXCEPT ![h].file = w.file]
          /\ last' = [op |-> "Write", h |-> h, err |-> w.err, n |-> w.n]
    /\ UNCHANGED <<Fsys, recs, now, mask>>

\* Close of handle h, closed before or not
ClClose(h) ==
    /\ h \in DOMAIN files
    /\ files[h].closes < MaxCloses
    /\ \E c \in {mapFile_Close(Fsys, recs, files[h].file, now + 1)} :
          /\ now + c.ticks <= MaxTime
          /\ Fsys' = c.F
          /\ files' = [files EXCEPT ![h].file = c.file, ![h].closes = @ + 1]
          /\ recs' = Live(c.F, c.R, files')
          /\ now' = now + c.ticks
          /\ last' = [op |-> "Close", h |-> h, err |-> c.err,
                      nth |-> files[h].closes + 1, b |-> files[h].file.b]
    /\ UNCHANGED mask

ClRemove ==
    /\ \E r \in {MapFS_Remove(Fsys, PathAB)} :
          /\ Fsys' = r.F
          /\ recs' = Live(r.F, recs, files)
          /\ last' = [op |-> "Remove", err |-> r.err]
    /\ UNCHANGED <<files, now, mask>>

\* kfs.WriteFile(a/b, data) beside the handles
ClWriteFile(data) ==
    /\ \E w \in {WriteFile(TheMapFS, Fsys, recs, PathAB, data, ModeFile, now)} :
          /\ w.now <= MaxTime
          /\ Fsys' = w.F
          /\ recs' = Live(w.F, w.R, files)
          /\ now' = w.now
          /\ last' = [op |-> "WriteFile", err |-> w.err]
    /\ UNCHANGED <<files, mask>>

NextCl ==
    \/ \E flag \in ClFlags : ClOpenFile(flag)
    \/ \E h \in 1..MaxFiles, p \in { <<x>> : x \in WriteBytes } : ClWrite(h, p)
    \/ \E h \in 1..MaxFiles : ClClose(h)
    \/ ClRemove
    \/ \E data \in StrsUpTo(MaxLen) : ClWriteFile(data)

SpecCl == InitCl /\ [][NextCl]_vars

\* C31: the first Close of a write handle stores its buffer at the path;
\* every later Close of the handle returns no error and leaves keys and
\* records as they are, whatever the path holds by then; and a Write
\* through a closed handle fails with an Invalid error, takes no byte and
\* changes nothing
C31_CloseOnce ==
    [][ /\ (last'.op = "Close" /\ last'.nth = 1) =>
              /\ last'.err = Nil
              /\ HndStored(Fsys', recs') = last'.b
        /\ (last'.op = "Close" /\ last'.nth > 1) =>
              /\ last'.err = Nil
              /\ UNCHANGED <<Fsys, recs>>
        /\ (last'.op = "Write" /\ files[last'.h].closes > 0) =>
              /\ ErrIs(last'.err, ErrInvalid)
              /\ last'.n = 0
              /\ UNCHANGED <<Fsys, recs, files>> ]_vars

\* a handle that stored the byte b at its first Close was closed a second
\* time after the record had been removed, and the path still has no record
C31_Witness ==
    /\ last.op = "Close"
    /\ last.nth = 2
    /\ last.err = Nil
    /\ PathAB \notin DOMAIN Fsys
    /\ now > 1

\* C32: a Remove step at a valid name that is no stored key but has stored
\* keys beneath it, so that Stat of the name succeeds, fails with NotExist
\* and leaves keys and records as they were; Stat of the name still
\* succeeds and every key beneath it reads as before
C32_RemoveImplicit ==
    [][ (/\ last'.op = "Remove"
         /\ ValidPath(last'.n)
         /\ FullOf(last'.v, last'.n) \notin DOMAIN Fsys
         /\ HasBeneath(Fsys, FullOf(last'.v, last'.n))) =>
            /\ MapView_Stat(last'.v, Fsys, recs, last'.n).err = Nil
            /\ last'.res.err = ErrNotExist
            /\ UNCHANGED <<Fsys, recs>>
            /\ MapView_Stat(last'.v, Fsys', recs', last'.n).err = Nil
            /\ \A k \in Beneath(Fsys, FullOf(last'.v, last'.n)) :
                  MapReadFile(Fsys', recs', k) = MapReadFile(Fsys, recs, k) ]_vars

\* Remove("a") on the backend failed with NotExist while a, which is no
\* stored key, is a directory with a/b and a/c stored beneath it
C32_Witness ==
    /\ last.op = "Remove"
    /\ last.v = TheMapFS
    /\ last.n = PathA
    /\ last.res.err = ErrNotExist
    /\ PathA \notin DOMAIN Fsys
    /\ MapStat(Fsys, recs, PathA).err = Nil
    /\ MapStat(Fsys, recs, PathA).IsDir
    /\ {PathAB, PathAC} \subseteq DOMAIN Fsys
    /\ MapReadFile(Fsys, recs, PathAC).err = Nil

\* the predicate hides a directory above name: some proper prefix of the
\* name's elements is a path of the wrapped filesystem it rejects
HiddenAbove(v, name) ==
    \E i \in 1..(Len(Elems(name)) - 1) :
        LET d == JoinElems(SubSeq(Elems(name), 1, i))
        IN Exists(v, d) /\ ~Verdict(v, d, Join(v.dir, d)).ok

\* C33: Stat, Open and ReadFile at an existing path the predicate accepts
\* return what the wrapped filesystem returns (the content of a file), also
\* when the predicate rejects a directory above the path; ReadDir and Sub
\* at an existing path the predicate rejects fail with FileMasked; and a
\* listing ReadDir returns holds no child the predicate rejects
C33_OwnVerdict ==
    /\ (last.op \in {"Stat", "Open", "ReadFile"} /\ MaskedCall(TRUE)) =>
          /\ last.res = Wrapped(last.op, last.v, last.n)
          /\ ~Wrapped("Stat", last.v, last.n).IsDir => last.res.err = Nil
    /\ (last.op \in {"ReadDir", "Sub"} /\ MaskedCall(FALSE)) =>
          ErrIs(last.res.err, ErrFileMasked)
    /\ (last.op = "ReadDir" /\ last.res.err = Nil) =>
          \A i \in 1..Len(last.res.Entries) :
              FilterEval(last.v.filter,
                         Join3(last.v.dir, last.n, last.res.Entries[i].Name),
                         last.res.Entries[i]).ok

\* ReadFile of a/b returned the file's content through a decorator whose
\* predicate rejects the directory a and accepts a/b
C33_Witness ==
    /\ last.op = "ReadFile"
    /\ last.n = PathAB
    /\ last.v = NewMaskFS(TheMapFS, FilterExact(PathA))
    /\ HiddenAbove(last.v, last.n)
    /\ MaskedCall(TRUE)
    /\ last.res.err = Nil
    /\ last.res.Data = <<"x">>
    /\ ErrIs(maskFS_ReadDir(last.v, Fsys, recs, PathA).err, ErrFileMasked)
    /\ ErrIs(maskFS_Sub(last.v, Fsys, recs, PathA).err, ErrFileMasked)

\* ------------------------------------------------------------------------
\* The OS backend's write path: osFS.OpenFile, and kfs.WriteFile over it
\*   D: the directory tree of the operating system, from full path to
\*      record, every directory being an entry of mode ModeDir
\*   env: what the operating system answers to the native calls of one
\*      operation: how many directories it lets MkdirAll make, and the
\*      errors of the native open, of File.Write and of File.Close
\* ------------------------------------------------------------------------

\* syscall.EISDIR
ErrIsDir == "EISDIR"

\* syscall.ENOSPC
ErrNoSpace == "ENOSPC"

\* syscall.EIO
ErrIO == "EIO"

\* whether full is a directory of the tree
osIsDir(D, full) == full = DotStr \/ (full \in DOMAIN D /\ D[full].Mode = ModeDir)

\* os.MkdirAll(p, 0o777): nothing to do for a directory, an error for
\* any other entry, else the parent first and then p itself; budget is the
\* number of directories the operating system still lets it make
RECURSIVE osMkdirAll(_, _, _)
osMkdirAll(D, p, budget) ==
    IF osIsDir(D, p) THEN [err |-> Nil, D |-> D, budget |-> budget]
    ELSE IF p \in DOMAIN D THEN [err |-> ErrNotDir, D |-> D, budget |-> budget]
    ELSE LET made(up) ==
               IF up.err # Nil THEN up
               ELSE IF up.budget = 0
               THEN [err |-> ErrPermission, D |-> up.D, budget |-> 0]
               ELSE [err |-> Nil,
                     D |-> [k \in DOMAIN up.D \cup {p} |->
                              IF k = p THEN MapFile(<<>>, ModeDir, ZeroTime)
                              ELSE up.D[k]],
                     budget |-> up.budget - 1]
         IN made(osMkdirAll(D, Dir(p), budget))

\* os.OpenFile(full, flag, mode): the native open, which fails with envErr
\* when the operating system refuses it
osOpenFile(D, full, flag, envErr) ==
    LET fail(e) == [err |-> e, file |-> None, D |-> D]
    IN IF ~osIsDir(D, Dir(full))
       THEN fail(IF Dir(full) \in DOMAIN D THEN ErrNotDir ELSE ErrNotExist)
       ELSE IF full \in DOMAIN D /\ flag.create /\ flag.excl THEN fail(ErrExist)
       ELSE IF osIsDir(D, full) /\ (flag.acc # ORdOnly \/ flag.create \/ flag.trunc)
       THEN fail(ErrIsDir)
       ELSE IF full \notin DOMAIN D /\ ~flag.create THEN fail(ErrNotExist)
       ELSE IF envErr # Nil THEN fail(envErr)
       ELSE [err |-> Nil,
             file |-> Some([path |-> full, flag |-> flag, off |-> 0,
                            writes |-> 0, closes |-> 0]),
             D |-> [k \in DOMAIN D \cup {full} |->
                      IF k # full THEN D[k]
                      ELSE IF full \notin DOMAIN D \/ (flag.trunc /\ flag.acc # ORdOnly)
                      THEN MapFile(<<>>, ModeFile, ZeroTime)
                      ELSE D[full]]]

\* os.File.Write through the handle f
osFile_Write(D, f, data, envErr) ==
    IF f.closes > 0 \/ f.flag.acc = ORdOnly
    THEN [err |-> ErrInvalid, file |-> f, D |-> D]
    ELSE IF envErr # Nil
    THEN [err |-> envErr, file |-> [f EXCEPT !.writes = @ + 1], D |-> D]
    ELSE [err |-> Nil,
          file |-> [f EXCEPT !.writes = @ + 1, !.off = @ + Len(data)],
          D |-> [D EXCEPT ![f.path].Data = SubSeq(@, 1, f.off) \o data]]

\* os.File.Close of the handle f
osFile_Close(f, envErr) ==
    [err |-> IF f.closes > 0 THEN ErrInvalid ELSE envErr,
     file |-> [f EXCEPT !.closes = @ + 1]]

\* an OpenFile that takes back the directories it made when the native
\* open fails
osFS_OpenFileRollback(v, D, name, flag, mode, env) ==
    IF ~ValidPath(name) THEN [err |-> ErrInvalid, file |-> None, D |-> D]
    ELSE LET opened(mk) ==
               IF mk.err # Nil THEN [err |-> mk.err, file |-> None, D |-> mk.D]
               ELSE LET back(o) == IF o.err # Nil THEN [o EXCEPT !.D = D] ELSE o
                    IN back(osOpenFile(mk.D, fullFilePath(v.dir, name), flag, env.open))
         IN opened(IF flag.create
                   THEN osMkdirAll(D, Dir(fullFilePath(v.dir, name)), env.mkdirs)
                   ELSE [err |-> Nil, D |-> D])

\* osFS.OpenFile
osFS_OpenFile(v, D, name, flag, mode, env) ==
    IF ~ValidPath(name) THEN [err |-> ErrInvalid, file |-> None, D |-> D]
    ELSE LET opened(mk) ==
               IF mk.err # Nil THEN [err |-> mk.err, file |-> None, D |-> mk.D]
               ELSE osOpenFile(mk.D, fullFilePath(v.dir, name), flag, env.open)
         IN opened(IF flag.create
                   THEN osMkdirAll(D, Dir(fullFilePath(v.dir, name)), env.mkdirs)
                   ELSE [err |-> Nil, D |-> D])

\* osFS.RemoveAll: os.RemoveAll takes the entry and everything below it
osFS_RemoveAll(v, D, name) ==
    IF ~ValidPath(name) THEN [err |-> ErrInvalid, D |-> D]
    ELSE LET gone(full) ==
               { k \in DOMAIN D : k = full \/ full = DotStr
                                  \/ HasPrefix(k, full \o <<Slash>>) }
         IN [err |-> Nil,
             D |-> LET take(g) == [k \in DOMAIN D \ g |-> D[k]]
                   IN take(gone(fullFilePath(v.dir, name)))]

\* the errors of errs that are not nil, errors.Join's list
JoinErrs(errs) == SelectSeq(errs, LAMBDA e : e # Nil)

\* a WriteFile that returns at once when the write fails, its handle
\* left open
osWriteFileLeak(v, D, name, data, perm, env) ==
    LET after(o) ==
          IF o.err # Nil
          THEN [err |-> o.err, joined |-> <<o.err>>, file |-> None, D |-> o.D]
          ELSE LET closed(w) ==
                     IF w.err # Nil
                     THEN [err |-> w.err, joined |-> <<w.err>>,
                           file |-> Some(w.file), D |-> w.D]
                     ELSE LET ret(c) ==
                                [err |-> c.err, joined |-> JoinErrs(<<c.err>>),
                                 file |-> Some(c.file), D |-> w.D]
                          IN ret(osFile_Close(w.file, env.close))
               IN closed(osFile_Write(o.D, o.file[1], data, env.write))
    IN after(osFS_OpenFile(v, D, name, OCreateTrunc, perm, env))

\* kfs.WriteFile(fsys, name, data, perm) on the OS backend: the result's
\* file is the handle as the call left it, joined the errors it returns
osWriteFile(v, D, name, data, perm, env) ==
    LET after(o) ==
          IF o.err # Nil
          THEN [err |-> o.err, joined |-> <<o.err>>, file |-> None, D |-> o.D]
          ELSE LET closed(w) ==
                     LET ret(c) ==
                           [err |-> IF w.err # Nil THEN w.err ELSE c.err,
                            joined |-> JoinErrs(<<w.err, c.err>>),
                            file |-> Some(c.file), D |-> w.D]
                     IN ret(osFile_Close(w.file, env.close))
               IN closed(osFile_Write(o.D, o.file[1], data, env.write))
    IN after(osFS_OpenFile(v, D, name, OCreateTrunc, perm, env))

\* ------------------------------------------------------------------------
\* Specification SpecOs: clients of the OS backend open, write and remove
\* files while the operating system may refuse any native call
\* ------------------------------------------------------------------------

MaxMkdir == 2

PathBX == <<"b", Slash, "x">>

\* the directory the backend is made on
OsDirs == {PathA}

\* the names clients pass, the last one not canonical
OsNames == {PathB, PathBX, <<Slash, "x">>}

OsFlags == {ORead, OWrite, OCreate, OCreateExcl, OCreateTrunc}

\* the answers of the operating system to one operation
OsEnvs == [mkdirs : 0..MaxMkdir, open : {Nil, ErrPermission},
           write : {Nil, ErrNoSpace}, close : {Nil, ErrIO}]

\* the answers to an operation that neither writes nor closes
OsOpenEnvs == { e \in OsEnvs : e.write = Nil /\ e.close = Nil }

\* the tree of the operating system
OsTree == Table(Fsys, recs)

InitOs ==
    /\ Fsys = SeedF(<<>>) /\ recs = SeedR(<<>>)
    /\ files = <<>>
    /\ now = 1
    /\ mask = None
    /\ last = NoCall

\* OpenFile(name, flag, 0o644) on the backend made on dir
OsOpenFile(dir, name, flag, env) ==
    /\ \E o \in {osFS_OpenFile(OsFS(dir), OsTree, name, flag, ModeFile, env)} :
          /\ Fsys' = SeedF(o.D) /\ recs' = SeedR(o.D)
          /\ last' = [op |-> "OpenFile", v |-> OsFS(dir), n |-> name, flag |-> flag,
                      env |-> env, before |-> OsTree, err |-> o.err,
                      file |-> o.file]
    /\ UNCHANGED <<files, now, mask>>

\* kfs.WriteFile(fsys, name, data, 0o644) on the backend made on dir
OsWriteFile(dir, name, data, env) ==
    /\ \E w \in {osWriteFile(OsFS(dir), OsTree, name, data, ModeFile, env)} :
          /\ Fsys' = SeedF(w.D) /\ recs' = SeedR(w.D)
          /\ last' = [op |-> "WriteFile", v |-> OsFS(dir), n |-> name,
                      flag |-> OCreateTrunc, env |-> env, before |-> OsTree,
                      err |-> w.err, joined |-> w.joined, file |-> w.file]
    /\ UNCHANGED <<files, now, mask>>

\* RemoveAll(name) on the backend made on dir
OsRemoveAll(dir, name) ==
    /\ \E r \in {osFS_RemoveAll(OsFS(dir), OsTree, name)} :
          /\ Fsys' = SeedF(r.D) /\ recs' = SeedR(r.D)
          /\ last' = [op |-> "RemoveAll", v |-> OsFS(dir), n |-> name, err |-> r.err]
    /\ UNCHANGED <<files, now, mask>>

NextOs ==
    \/ \E dir \in OsDirs, name \in OsNames, flag \in OsFlags, env \in OsOpenEnvs :
          OsOpenFile(dir, name, flag, env)
    \/ \E dir \in OsDirs, name \in OsNames, data \in {<<"b">>}, env \in OsEnvs :
          OsWriteFile(dir, name, data, env)
    \/ \E dir \in OsDirs, name \in OsNames : OsRemoveAll(dir, name)

SpecOs == InitOs /\ [][NextOs]_vars

\* the directories of a tree
osDirsOf(D) == { k \in DOMAIN D : D[k].Mode = ModeDir }

\* the directories above full, the root left out
RECURSIVE osParents(_)
osParents(full) ==
    IF Dir(full) = DotStr THEN {} ELSE {Dir(full)} \cup osParents(Dir(full))

\* C34: kfs.WriteFile opens its target write-only+create+truncate; once
\* the open succeeded the handle is written once and closed exactly once,
\* whether the write failed or not; the result is nil only if the open, the
\* write and the close all succeeded; when the open fails there is no
\* handle, nothing is written and nothing is closed
C34_WriteFileClosesOnce ==
    last.op = "WriteFile" =>
        /\ last.file = None <=>
              osFS_OpenFile(last.v, last.before, last.n, OCreateTrunc,
                            ModeFile, last.env).err # Nil
        /\ last.file = None =>
              /\ last.err # Nil
              /\ \A k \in DOMAIN last.before :
                    k \in DOMAIN OsTree /\ OsTree[k] = last.before[k]
              /\ \A k \in DOMAIN OsTree \ DOMAIN last.before :
                    OsTree[k].Mode = ModeDir
        /\ last.file # None =>
              /\ last.file[1].flag = OCreateTrunc
              /\ last.file[1].writes = 1
              /\ last.file[1].closes = 1
              /\ last.err = Nil <=> (last.env.write = Nil /\ last.env.close = Nil)
              /\ last.joined = JoinErrs(<<last.env.write, last.env.close>>)
        /\ last.err = Nil <=> last.joined = <<>>

\* a WriteFile whose write failed after a successful open, the handle
\* closed once all the same
C34_Witness ==
    /\ last.op = "WriteFile"
    /\ last.file # None
    /\ last.env.write # Nil
    /\ last.err = ErrNoSpace
    /\ last.file[1].closes = 1

\* C35: osFS.OpenFile fails with Invalid on a name that is not canonical
\* and leaves the tree alone; with the create flag, every directory above
\* the file exists once the native open is reached and stays when that
\* open fails, no earlier entry being taken away; without the create flag
\* the directories of the tree are the same after the call
C35_OpenFileMkdir ==
    last.op = "OpenFile" =>
        LET full == fullFilePath(last.v.dir, last.n)
            missing == osParents(full) \ DOMAIN last.before
        IN /\ ~ValidPath(last.n) =>
                 /\ ErrIs(last.err, ErrInvalid)
                 /\ last.file = None
                 /\ OsTree = last.before
           /\ (ValidPath(last.n) /\ last.flag.create) =>
                 /\ \A k \in DOMAIN last.before :
                       k \in DOMAIN OsTree /\ (k # full => OsTree[k] = last.before[k])
                 /\ ( /\ osParents(full) \cap DOMAIN last.before
                            \subseteq osDirsOf(last.before)
                      /\ Cardinality(missing) <= last.env.mkdirs )
                    => osParents(full) \subseteq osDirsOf(OsTree)
           /\ (ValidPath(last.n) /\ ~last.flag.create) =>
                 osDirsOf(OsTree) = osDirsOf(last.before)

\* an OpenFile with the create flag that made the two directories above
\* its file and whose native open was then refused
C35_Witness ==
    /\ last.op = "OpenFile"
    /\ last.flag.create
    /\ last.env.open = ErrPermission
    /\ last.err = ErrPermission
    /\ osParents(fullFilePath(last.v.dir, last.n)) \subseteq osDirsOf(OsTree)
    /\ Cardinality(osParents(fullFilePath(last.v.dir, last.n))
                   \ DOMAIN last.before) = 2

\* ------------------------------------------------------------------------
\* The operation name and the path in the fs.PathError of the write methods
\* ------------------------------------------------------------------------

\* the Op of the fs.PathError values that the methods of MapFS build
MapFS_ErrOp(method) ==
    CASE method = "OpenFile" -> "openfile"
      [] method = "Remove" -> "remove"
      [] method = "RemoveAll" -> "removeall"
      [] method = "Chtimes" -> "chtimes"

\* the Op of the fs.PathError values that the methods of subdirFS build
\* for a name that is not a valid path
subdirFS_ErrOp(method) ==
    CASE method = "OpenFile" -> "openfile"
      [] method = "Remove" -> "remove"
      [] method = "RemoveAll" -> "remove"
      [] method = "Chtimes" -> "chtimes"

\* the Op of the fs.PathError values that the methods of readOnlyFS build
readOnlyFS_ErrOp(method) ==
    CASE method = "OpenFile" -> "openfile"
      [] method = "Remove" -> "remove"
      [] method = "RemoveAll" -> "removeall"
      [] method = "Chtimes" -> "atime"

\* the Op and the Path of the fs.PathError that method(name) returns on
\* the value v when it fails: the read-only decorator and the map build
\* it from the name they are given, a Sub view builds it for a name that
\* is not valid and else hands the joined path to the map
PathErrorOf(v, method, name) ==
    CASE v.kind = KReadOnlyFS -> [Op |-> readOnlyFS_ErrOp(method), Path |-> name]
      [] v.kind = KMapFS -> [Op |-> MapFS_ErrOp(method), Path |-> name]
      [] v.kind = KSubdirFS ->
            IF ~ValidPath(name)
            THEN [Op |-> subdirFS_ErrOp(method), Path |-> name]
            ELSE [Op |-> MapFS_ErrOp(method), Path |-> Join(v.dir, name)]

\* the name of each operation as errors carry it
OpName(method) ==
    CASE method = "OpenFile" -> "openfile"
      [] method = "Remove" -> "remove"
      [] method = "RemoveAll" -> "removeall"
      [] method = "Chtimes" -> "chtimes"

CapWriteOps == {"OpenFile", "Remove", "RemoveAll", "Chtimes"}

\* C36: every error of OpenFile, Remove, RemoveAll or Chtimes on the map,
\* a Sub view, the read-only decorator or a value without the method
\* carries the name of the operation that was called and the path it
\* concerns, and the error a Sub view passes up from the map has the kind
\* the map gave it
C36_ErrorNamesOperation ==
    (last.op \in CapWriteOps /\ last.res.err # Nil) =>
        /\ IF last.v.kind = KPlainFS
           THEN last.res.op = OpName(last.op) /\ last.res.path = last.n
           ELSE /\ PathErrorOf(last.v, last.op, last.n).Op = OpName(last.op)
                /\ PathErrorOf(last.v, last.op, last.n).Path
                      \in {last.n, Join(CapDir(last.v), last.n)}
        /\ (last.v.kind = KSubdirFS /\ ValidPath(last.n) /\ last.op = "Remove") =>
              last.res.err = MapFS_Remove(Fsys, Join(last.v.dir, last.n)).err
        /\ (last.v.kind = KSubdirFS /\ ValidPath(last.n) /\ last.op = "Chtimes") =>
              last.res.err
                 = MapFS_Chtimes(Fsys, recs, Join(last.v.dir, last.n), last.mtime).err

\* Chtimes through the read-only decorator has failed with ReadOnly, and
\* the error names the operation "atime"
C36_Witness ==
    /\ last.op = "Chtimes"
    /\ last.v.kind = KReadOnlyFS
    /\ ErrIs(last.res.err, ErrReadOnly)
    /\ PathErrorOf(last.v, last.op, last.n) = [Op |-> "atime", Path |-> last.n]

============================================================================
